---- MODULE Spec2Model ----
(***************************************************************************)
(* Training data reconciliation and indexing engine of train-r:            *)
(* the workout matcher (src/services/workout_matcher.py), the index        *)
(* builder (src/services/index_builder.py) and the sync controller         *)
(* (src/services/data_sync.py).                                            *)
(*                                                                         *)
(* Encoding of Python values:                                              *)
(*   - an ISO timestamp string "YYYY-MM-DDTHH:MM:SS" is a pair             *)
(*     <<day, tod>>: the calendar day number and the time of day; string   *)
(*     comparison of two such timestamps is the lexicographic order;       *)
(*   - a date string "YYYY-MM-DD" is the day number;                       *)
(*   - None for an id is the string "None", None for a number is NoneNum;  *)
(*   - a confidence 0.95 is the integer 95 (hundredths), a TSS threshold   *)
(*     of 0.20 is the integer 20 (percent);                                *)
(*   - a dict key that is absent reads like None (dict.get).               *)
(***************************************************************************)
EXTENDS Integers, Sequences, FiniteSets, TLC

None == "None"
NoneNum == -1
NoStamp == <<NoneNum, 0>>

\* A date string that is no date ("garbage"): as a day it is Malformed, and a
\* timestamp <<Malformed, 0>> is a non-empty string that no parser accepts
Malformed == -2

\* A date that is null: the key is there and its value is None, as in the
\* `"date": activity.get("start_date_local")` of the client when the provider
\* sends no start date.  NoStamp is the date of a record without the key.
Null == -3

\* datetime.strptime(date, "%Y-%m-%d") / datetime.fromisoformat(...) succeed
ParsesAsDate(day) == day >= 0

Abs(x) == IF x < 0 THEN 0 - x ELSE x

Range(s) == {s[i] : i \in 1..Len(s)}

Ids(s) == {s[i].id : i \in 1..Len(s)}

\* Python truthiness of a number-or-None
Truthy(x) == x # NoneNum /\ x # 0

\* String order of two timestamps
StampLess(a, b) == a[1] < b[1] \/ (a[1] = b[1] /\ a[2] < b[2])

(***************************************************************************)
(* workout_matcher.py                                                      *)
(***************************************************************************)

\* _extract_date: the part before 'T' (the first ten characters without a 'T');
\* None for an empty or missing string; a string that is no date comes back as
\* it is, nothing is parsed
extract_date(date_str) == IF date_str[1] \in {NoneNum, Null} THEN NoneNum ELSE date_str[1]

\* str.lower() on the provider's activity types
lower(s) ==
    CASE s = "Ride" -> "ride"
      [] s = "VirtualRide" -> "virtualride"
      [] s = "Run" -> "run"
      [] OTHER -> s

\* faulty variant: the 10% band read as strict (`tss_variance < 0.10`)
calculate_match_confidence_strict(activity, event, tss_threshold) ==
    LET activity_type == lower(activity.type)
        event_type == lower(event.type)
        type_match == \/ activity_type = event_type
                      \/ /\ activity_type \in {"ride", "virtualride"}
                         /\ event_type \in {"ride", "virtualride"}
        activity_tss == activity.training_stress_score
        event_tss == event.icu_training_load
    IN  IF ~type_match THEN 50
        ELSE IF Truthy(activity_tss) /\ Truthy(event_tss) /\ event_tss > 0
             THEN IF Abs(activity_tss - event_tss) * 100 < 10 * event_tss THEN 95
                  ELSE IF Abs(activity_tss - event_tss) * 100 <= tss_threshold * event_tss
                       THEN 85
                       ELSE 70
             ELSE 70

\* faulty variant: the variance taken relative to the actual TSS
\* (`abs(activity_tss - event_tss) / activity_tss`)
calculate_match_confidence_by_actual(activity, event, tss_threshold) ==
    LET activity_type == lower(activity.type)
        event_type == lower(event.type)
        type_match == \/ activity_type = event_type
                      \/ /\ activity_type \in {"ride", "virtualride"}
                         /\ event_type \in {"ride", "virtualride"}
        activity_tss == activity.training_stress_score
        event_tss == event.icu_training_load
    IN  IF ~type_match THEN 50
        ELSE IF Truthy(activity_tss) /\ Truthy(event_tss) /\ event_tss > 0
             THEN IF Abs(activity_tss - event_tss) * 100 <= 10 * activity_tss THEN 95
                  ELSE IF Abs(activity_tss - event_tss) * 100
                             <= tss_threshold * activity_tss
                       THEN 85
                       ELSE 70
             ELSE 70

\* _calculate_match_confidence
calculate_match_confidence(activity, event, tss_threshold) ==
    LET activity_type == lower(activity.type)
        event_type == lower(event.type)
        type_match == \/ activity_type = event_type
                      \/ /\ activity_type \in {"ride", "virtualride"}
                         /\ event_type \in {"ride", "virtualride"}
        activity_tss == activity.training_stress_score
        event_tss == event.icu_training_load
    IN  IF ~type_match THEN 50
        ELSE IF Truthy(activity_tss) /\ Truthy(event_tss) /\ event_tss > 0
             THEN IF Abs(activity_tss - event_tss) * 100 <= 10 * event_tss THEN 95
                  ELSE IF Abs(activity_tss - event_tss) * 100 <= tss_threshold * event_tss
                       THEN 85
                       ELSE 70
             ELSE 70

\* first index of a sequence whose element satisfies Test (0 when none)
FirstIndex(s, Test(_)) ==
    IF \E i \in 1..Len(s) : Test(s[i])
    THEN CHOOSE i \in 1..Len(s) : Test(s[i]) /\ \A j \in 1..(i - 1) : ~Test(s[j])
    ELSE 0

\* faulty variant: the annotation key 'planned_event_id' read instead of the
\* provider's 'paired_event_id'
IsPairedWrongKey(activity, events) ==
    /\ activity.planned_event_id # None
    /\ activity.planned_event_id \in Ids(events)

\* `paired_event_id and paired_event_id in event_lookup`
IsPaired(activity, events) ==
    /\ activity.paired_event_id # None
    /\ activity.paired_event_id \in Ids(events)

\* _use_paired_event_id: phase 1, the provider's pairing id is authoritative
use_paired_event_id(activities, events) ==
    LET annotated == [i \in 1..Len(activities) |->
                        IF IsPaired(activities[i], events)
                        THEN [activities[i] EXCEPT
                                !.planned_event_id = activities[i].paired_event_id,
                                !.planned_match_confidence = 100]
                        ELSE activities[i]]
        matched_activities == SelectSeq(annotated, LAMBDA a : IsPaired(a, events))
        unmatched_activities == SelectSeq(annotated, LAMBDA a : ~IsPaired(a, events))
        matched_event_ids == {matched_activities[i].paired_event_id :
                                i \in 1..Len(matched_activities)}
        matching_activity(event) ==
            matched_activities[FirstIndex(matched_activities,
                                          LAMBDA a : a.planned_event_id = event.id)]
        marked == [j \in 1..Len(events) |->
                     IF events[j].id \in matched_event_ids
                     THEN [events[j] EXCEPT
                             !.completed = TRUE,
                             !.completed_activity_id = matching_activity(events[j]).id,
                             !.completion_date = matching_activity(events[j]).date]
                     ELSE [events[j] EXCEPT !.completed = FALSE]]
    IN  [matched_activities |-> matched_activities,
         unmatched_activities |-> unmatched_activities,
         matched_events |-> SelectSeq(marked, LAMBDA e : e.id \in matched_event_ids),
         unmatched_events |-> SelectSeq(marked, LAMBDA e : e.id \notin matched_event_ids)]

\* events_by_date[activity_date]: the positions, in list order, of the events
\* of that date (events without a date are not indexed)
events_by_date(events, activity_date) ==
    LET RECURSIVE on_date(_)
        on_date(j) ==
            IF j > Len(events) THEN <<>>
            ELSE IF /\ extract_date(events[j].start_date_local) # NoneNum
                    /\ extract_date(events[j].start_date_local) = activity_date
                 THEN <<j>> \o on_date(j + 1)
                 ELSE on_date(j + 1)
    IN  on_date(1)

\* faulty variant: `confidence >= best_confidence`, the last maximum wins
BetterOrEqual(confidence, best_confidence) == confidence >= best_confidence

\* `confidence > best_confidence`
Better(confidence, best_confidence) == confidence > best_confidence

\* The inner loop of _fuzzy_match over the candidate positions `cand`:
\* the best event so far (0 for None) and its confidence
RECURSIVE best_match(_, _, _, _, _, _, _)
best_match(activity, events, matched_event_ids, tss_threshold, cand, best, best_confidence) ==
    IF cand = <<>> THEN [best_match |-> best, best_confidence |-> best_confidence]
    ELSE LET j == Head(cand)
             confidence == calculate_match_confidence(activity, events[j], tss_threshold)
         IN  IF events[j].id \in matched_event_ids
             THEN best_match(activity, events, matched_event_ids, tss_threshold,
                             Tail(cand), best, best_confidence)
             ELSE IF Better(confidence, best_confidence)
                  THEN best_match(activity, events, matched_event_ids, tss_threshold,
                                  Tail(cand), j, confidence)
                  ELSE best_match(activity, events, matched_event_ids, tss_threshold,
                                  Tail(cand), best, best_confidence)

\* The locals of _fuzzy_match before its loop over the activities
fuzzy_start(activities, events) ==
    [activities |-> activities,
     events |-> events,
     matched_activities |-> <<>>,
     matched_events |-> <<>>,
     matched_event_ids |-> {},
     idx |-> 0]

\* The pairs that one iteration of the loop hands to _calculate_match_confidence
fuzzy_scored(loc) ==
    LET activity == loc.activities[loc.idx + 1]
        activity_date == extract_date(activity.date)
    IN  IF activity_date = NoneNum THEN {}
        ELSE {<<activity.id, loc.events[j].id>> :
                j \in {h \in Range(events_by_date(loc.events, activity_date)) :
                         loc.events[h].id \notin loc.matched_event_ids}}

\* One iteration of the loop of _fuzzy_match, for the activity at idx + 1
fuzzy_iteration(loc, tss_threshold) ==
    LET i == loc.idx + 1
        activity == loc.activities[i]
        activity_date == extract_date(activity.date)
        cand == events_by_date(loc.events, activity_date)
        found == best_match(activity, loc.events, loc.matched_event_ids, tss_threshold,
                            cand, 0, 0)
        j == found.best_match
        linked == [activity EXCEPT !.planned_event_id = loc.events[j].id,
                                   !.planned_match_confidence = found.best_confidence]
        done == [loc.events[j] EXCEPT !.completed = TRUE,
                                      !.completed_activity_id = activity.id,
                                      !.completion_date = activity.date]
    IN  IF activity_date = NoneNum \/ cand = <<>> THEN [loc EXCEPT !.idx = i]
        ELSE IF j # 0 /\ found.best_confidence >= 50
             THEN [loc EXCEPT !.activities[i] = linked,
                              !.events[j] = done,
                              !.matched_activities = Append(@, linked),
                              !.matched_events = Append(@, done),
                              !.matched_event_ids = @ \cup {loc.events[j].id},
                              !.idx = i]
             ELSE [loc EXCEPT !.idx = i]

\* _fuzzy_match: phase 2, the loop run to its end
RECURSIVE fuzzy_loop(_, _)
fuzzy_loop(loc, tss_threshold) ==
    IF loc.idx >= Len(loc.activities) THEN loc
    ELSE fuzzy_loop(fuzzy_iteration(loc, tss_threshold), tss_threshold)

fuzzy_match(activities, events, tss_threshold) ==
    fuzzy_loop(fuzzy_start(activities, events), tss_threshold)

\* "Combine results" of match_workouts: phase 1 matches, phase 2 matches, the rest
combine(p1, fz) ==
    [activities |-> p1.matched_activities \o fz.matched_activities \o
                    SelectSeq(fz.activities, LAMBDA a : a.id \notin Ids(fz.matched_activities)),
     events |-> p1.matched_events \o fz.matched_events \o
                SelectSeq(fz.events, LAMBDA e : e.id \notin Ids(fz.matched_events))]

\* match_workouts
match_workouts(planned_events, completed_activities, tss_threshold) ==
    LET p1 == use_paired_event_id(completed_activities, planned_events)
        fz == fuzzy_match(p1.unmatched_activities, p1.unmatched_events, tss_threshold)
    IN  combine(p1, fz)

(***************************************************************************)
(* index_builder.py                                                        *)
(***************************************************************************)

\* [f(s[1]), ..., f(s[n])]
MapSeq(s, f(_)) == [i \in 1..Len(s) |-> f(s[i])]

\* sum(f(x) for x in s)
SumSeq(s, f(_)) ==
    LET RECURSIVE sum(_)
        sum(i) == IF i > Len(s) THEN 0 ELSE f(s[i]) + sum(i + 1)
    IN  sum(1)

\* round(n / d, k) for n >= 0, d > 0, in units of 1/scale (scale = 10^k)
RoundDiv(n, d, scale) == (2 * scale * n + d) \div (2 * d)

\* `x or 0`
OrZero(x) == IF x = NoneNum THEN 0 ELSE x

\* _get_iso_week: day 0 is a Monday, weeks are numbered from it
get_iso_week(date_str) ==
    IF extract_date(date_str) = NoneNum THEN NoneNum
    ELSE IF ~ParsesAsDate(extract_date(date_str)) THEN NoneNum
    ELSE extract_date(date_str) \div 7

\* _get_week_start_date: the Monday of the week
get_week_start_date(iso_week) == 7 * iso_week

\* build_date_index, one entry of a "planned" list
planned_entry(event) ==
    [event_id |-> event.id,
     name |-> event.name,
     type |-> event.type,
     planned_tss |-> event.icu_training_load,
     completed |-> event.completed,
     completed_activity_id |-> event.completed_activity_id]

\* build_date_index, one entry of an "actual" list
actual_entry(activity, events) ==
    LET matched_event_id == activity.planned_event_id
        actual_tss == activity.training_stress_score
        j == FirstIndex(events, LAMBDA e : e.id = matched_event_id)
        planned_tss == IF matched_event_id # None /\ j # 0
                       THEN events[j].icu_training_load ELSE NoneNum
        computed == matched_event_id # None /\ j # 0
                    /\ actual_tss # NoneNum /\ Truthy(planned_tss)
        completion_percentage ==
            IF computed /\ planned_tss > 0 /\ actual_tss > 0
            THEN RoundDiv(100 * actual_tss, planned_tss, 10)
            ELSE NoneNum
    IN  [activity_id |-> activity.id,
         type |-> activity.type,
         actual_tss |-> actual_tss,
         matched_event_id |-> matched_event_id,
         match_confidence |-> activity.planned_match_confidence,
         has_variance |-> computed,
         variance_tss |-> IF computed THEN actual_tss - planned_tss ELSE 0,
         completion_percentage |-> completion_percentage]

\* build_date_index
build_date_index(activities, events) ==
    LET dates == ({extract_date(events[j].start_date_local) : j \in 1..Len(events)}
                  \cup {extract_date(activities[i].date) : i \in 1..Len(activities)})
                 \ {NoneNum}
    IN  [d \in dates |->
            [planned |-> MapSeq(SelectSeq(events,
                                   LAMBDA e : extract_date(e.start_date_local) = d),
                                planned_entry),
             actual |-> MapSeq(SelectSeq(activities,
                                   LAMBDA a : extract_date(a.date) = d),
                               LAMBDA a : actual_entry(a, events))]]

\* faulty variant: the completed workouts of a week are counted from the matched
\* activities of the week, not from the completed events of the week
build_week_index_by_activities(activities, events) ==
    LET weeks == ({get_iso_week(events[j].start_date_local) : j \in 1..Len(events)}
                  \cup {get_iso_week(activities[i].date) : i \in 1..Len(activities)})
                 \ {NoneNum}
        entry(w) ==
            LET evs == SelectSeq(events, LAMBDA e : get_iso_week(e.start_date_local) = w)
                acts == SelectSeq(activities, LAMBDA a : get_iso_week(a.date) = w)
                planned_tss == SumSeq(evs, LAMBDA e : OrZero(e.icu_training_load))
                actual_tss == SumSeq(acts, LAMBDA a : OrZero(a.training_stress_score))
                planned_workouts == Len(evs)
                completed_workouts ==
                    Len(SelectSeq(acts, LAMBDA a : a.planned_event_id # None))
            IN  [week_start |-> IF evs # <<>> THEN get_week_start_date(w) ELSE NoneNum,
                 planned_tss |-> planned_tss,
                 actual_tss |-> actual_tss,
                 planned_workouts |-> planned_workouts,
                 completed_workouts |-> completed_workouts,
                 compliance_rate |-> IF planned_workouts > 0
                                     THEN RoundDiv(completed_workouts, planned_workouts, 1000)
                                     ELSE 0,
                 tss_adherence |-> IF planned_tss > 0
                                   THEN RoundDiv(actual_tss, planned_tss, 1000)
                                   ELSE 0]
    IN  [w \in weeks |-> entry(w)]

\* build_week_index
build_week_index(activities, events) ==
    LET weeks == ({get_iso_week(events[j].start_date_local) : j \in 1..Len(events)}
                  \cup {get_iso_week(activities[i].date) : i \in 1..Len(activities)})
                 \ {NoneNum}
        entry(w) ==
            LET evs == SelectSeq(events, LAMBDA e : get_iso_week(e.start_date_local) = w)
                acts == SelectSeq(activities, LAMBDA a : get_iso_week(a.date) = w)
                planned_tss == SumSeq(evs, LAMBDA e : OrZero(e.icu_training_load))
                actual_tss == SumSeq(acts, LAMBDA a : OrZero(a.training_stress_score))
                planned_workouts == Len(evs)
                completed_workouts == Len(SelectSeq(evs, LAMBDA e : e.completed))
            IN  [week_start |-> IF evs # <<>> THEN get_week_start_date(w) ELSE NoneNum,
                 planned_tss |-> planned_tss,
                 actual_tss |-> actual_tss,
                 planned_workouts |-> planned_workouts,
                 completed_workouts |-> completed_workouts,
                 compliance_rate |-> IF planned_workouts > 0
                                     THEN RoundDiv(completed_workouts, planned_workouts, 1000)
                                     ELSE 0,
                 tss_adherence |-> IF planned_tss > 0
                                   THEN RoundDiv(actual_tss, planned_tss, 1000)
                                   ELSE 0]
    IN  [w \in weeks |-> entry(w)]

\* build_type_index: the key of an event, its name or else its type
workout_name(event) == IF event.name = "" THEN event.type ELSE event.name

\* build_type_index
build_type_index(activities, events) ==
    [n \in {workout_name(events[j]) : j \in 1..Len(events)} |->
        MapSeq(SelectSeq(events, LAMBDA e : workout_name(e) = n),
               LAMBDA e : [date |-> extract_date(e.start_date_local),
                           event_id |-> e.id,
                           activity_id |-> e.completed_activity_id,
                           completed |-> e.completed])]

\* build_workout_index
build_workout_index(activities, events) ==
    [by_date |-> build_date_index(activities, events),
     by_week |-> build_week_index(activities, events),
     by_type |-> build_type_index(activities, events)]

(***************************************************************************)
(* data_sync.py                                                            *)
(***************************************************************************)
RefreshDays == 14
history_initial_lookback_days == 1095
planned_events_lookback_days == 1095
planned_events_lookahead_days == 365

\* list.sort(key=..., reverse=True): stable, equal keys keep their order
SortDesc(s, key(_)) ==
    LET RECURSIVE insert(_, _)
        insert(sorted, x) ==
            IF sorted = <<>> THEN <<x>>
            ELSE IF StampLess(key(Head(sorted)), key(x))
                 THEN <<x>> \o sorted
                 ELSE <<Head(sorted)>> \o insert(Tail(sorted), x)
        RECURSIVE sort(_)
        sort(n) == IF n = 0 THEN <<>> ELSE insert(sort(n - 1), s[n])
    IN  sort(Len(s))

\* faulty variant: dict.setdefault, an id already present keeps its old record
PutKeepOld(dict, rec) ==
    IF rec.id \in Ids(dict) THEN dict ELSE Append(dict, rec)

\* dict[rec.id] = rec on an insertion-ordered dict: a known id keeps its place
\* and gets the new record, a new id goes to the end
Put(dict, rec) ==
    IF rec.id \in Ids(dict)
    THEN [i \in 1..Len(dict) |-> IF dict[i].id = rec.id THEN rec ELSE dict[i]]
    ELSE Append(dict, rec)

RECURSIVE PutAll(_, _)
PutAll(dict, recs) ==
    IF recs = <<>> THEN dict ELSE PutAll(Put(dict, Head(recs)), Tail(recs))

\* faulty variant: the boundary taken at `now` instead of 14 days before it
OlderThanNow(day, now) == StampLess(<<day, 0>>, now)

\* `datetime.fromisoformat(date.split('T')[0]) < datetime.now() - timedelta(days=14)`
OlderThanRefresh(day, now) == StampLess(<<day, 0>>, <<now[1] - RefreshDays, now[2]>>)

\* The first loop of _merge_activities / _merge_events: the persisted records
\* kept, those dated before the refresh boundary (a record without an id is
\* dropped, one whose date does not parse is kept)
kept_existing(existing, date_of(_), now) ==
    SelectSeq(existing,
              LAMBDA r : /\ r.id # None
                         /\ \/ extract_date(date_of(r)) = NoneNum
                            \/ ~ParsesAsDate(extract_date(date_of(r)))
                            \/ OlderThanRefresh(extract_date(date_of(r)), now))

\* `merged.sort(key=lambda x: x.get(key, ""), reverse=True)` raises TypeError:
\* a key that is None is compared with another key
sort_raises(merged, key) ==
    Len(merged) >= 2 /\ \E i \in 1..Len(merged) : merged[i][key][1] = Null

\* _merge_activities
merge_activities(existing, new, now) ==
    SortDesc(PutAll(PutAll(<<>>, kept_existing(existing, LAMBDA a : a.date, now)),
                    SelectSeq(new, LAMBDA a : a.id # None)),
             LAMBDA a : a.date)

\* _merge_events
merge_events(existing, new, now) ==
    SortDesc(PutAll(PutAll(<<>>, kept_existing(existing,
                                               LAMBDA e : e.start_date_local, now)),
                    SelectSeq(new, LAMBDA e : e.id # None)),
             LAMBDA e : e.start_date_local)

\* min(a, b) of two date strings
MinDay(a, b) == IF a < b THEN a ELSE b

\* faulty variant: the last activity date is not looked at
should_do_full_sync_undated(metadata) ==
    \/ metadata = <<>>
    \/ metadata[1].last_sync_timestamp = NoStamp

\* should_do_full_sync; the metadata is <<>> when the file is missing
should_do_full_sync(metadata) ==
    \/ metadata = <<>>
    \/ metadata[1].last_sync_timestamp = NoStamp
    \/ metadata[1].last_activity_date = NoStamp

\* get_last_activity_date
get_last_activity_date(metadata) ==
    IF metadata = <<>> THEN NoStamp ELSE metadata[1].last_activity_date

\* get_last_event_date
get_last_event_date(metadata) ==
    IF metadata = <<>> THEN NoneNum ELSE metadata[1].last_event_date

\* _create_metadata
create_metadata(activities, events, now) ==
    [schema_version |-> "2.0",
     last_sync_timestamp |-> now,
     last_activity_date |-> IF activities # <<>> THEN activities[1].date ELSE NoStamp,
     last_activity_id |-> IF activities # <<>> THEN activities[1].id ELSE None,
     total_activities |-> Len(activities),
     last_event_date |-> IF events # <<>>
                         THEN extract_date(events[1].start_date_local) ELSE NoneNum,
     last_event_id |-> IF events # <<>> THEN events[1].id ELSE None,
     total_events |-> Len(events)]

\* _aggregate_weekly: an activity without a date, or whose date
\* datetime.fromisoformat rejects, is skipped; the weeks newest first (of the
\* totals, the training load and the workout count are modelled)
aggregate_weekly(activities) ==
    LET counted == SelectSeq(activities,
                             LAMBDA a : /\ a.date[1] \notin {NoneNum, Null}
                                        /\ ParsesAsDate(a.date[1]))
        \* the Monday of the activity's week
        week_key(a) == 7 * (a.date[1] \div 7)
        \* sorted(weekly_data.keys(), reverse=True)
        RECURSIVE DescendingSeq(_)
        DescendingSeq(S) ==
            IF S = {} THEN <<>>
            ELSE LET m == CHOOSE x \in S : \A y \in S : y <= x
                 IN  <<m>> \o DescendingSeq(S \ {m})
        keys == DescendingSeq({week_key(counted[i]) : i \in 1..Len(counted)})
    IN  [k \in 1..Len(keys) |->
            LET acts == SelectSeq(counted, LAMBDA a : week_key(a) = keys[k])
            IN  [week_start |-> keys[k],
                 total_tss |-> SumSeq(acts, LAMBDA a : OrZero(a.training_stress_score)),
                 workout_count |-> Len(acts)]]

\* The documents _save_all_data writes, in the order it writes them
SaveOrder ==
    <<"completed_activities", "planned_events", "power_curves", "workout_index",
      "weekly_summary">>

\* load_sync_metadata, _load_existing_activities, _load_existing_events: the
\* document's content; None or [] when it is missing or cannot be read
load_document(files, name) ==
    IF name \in files.partial THEN <<>> ELSE files[name]

\* _fetch_power_curves: the provider's power curves are those of the moment
\* they are asked for
fetch_power_curves(now) == <<[as_of |-> now]>>

\* One `with open(path, 'w') ... json.dump(...)` of _save_all_data: the
\* document gets the content computed by this sync
write_document(files, loc, name) ==
    LET content == CASE name = "completed_activities" -> loc.matched_activities
                     [] name = "planned_events" -> loc.matched_events
                     [] name = "power_curves" -> loc.power_curves
                     [] name = "workout_index" -> loc.workout_index
                     [] name = "weekly_summary" -> loc.weekly_stats
    IN  [[files EXCEPT ![name] = content] EXCEPT !.partial = @ \ {name}]

\* _save_all_data: the five writes one after the other
save_all_data(files, loc) ==
    LET RECURSIVE save_documents(_)
        save_documents(k) ==
            IF k = 0 THEN files
            ELSE write_document(save_documents(k - 1), loc, SaveOrder[k])
    IN  save_documents(Len(SaveOrder))

\* The provider's listing of a set of records: by date, oldest first or newest
\* first, always the same listing for the same set
ApiList(records, date_of(_), order) ==
    CHOOSE s \in [1..Cardinality(records) -> records] :
        /\ Range(s) = records
        /\ \A i, j \in 1..Cardinality(records) :
              i < j => IF order = "asc"
                       THEN ~StampLess(date_of(s[j]), date_of(s[i]))
                       ELSE ~StampLess(date_of(s[i]), date_of(s[j]))

\* IntervalsClient.get_workout_history(oldest_date, newest_date)
get_workout_history(remote, oldest_date, newest_date, order) ==
    ApiList({a \in remote : oldest_date <= a.date[1] /\ a.date[1] <= newest_date},
            LAMBDA a : a.date, order)

\* IntervalsClient.get_planned_events(oldest_date, newest_date, "WORKOUT")
get_planned_events(remote, oldest_date, newest_date, order) ==
    ApiList({e \in remote : /\ oldest_date <= e.start_date_local[1]
                            /\ e.start_date_local[1] <= newest_date},
            LAMBDA e : e.start_date_local, order)

\* _fetch_incremental_activities: the window asked for
incremental_window(since_date, now) ==
    LET today == now[1]
        two_weeks_ago == now[1] - RefreshDays
    IN  [oldest_date |-> IF since_date # NoStamp
                         THEN MinDay(two_weeks_ago, extract_date(since_date))
                         ELSE two_weeks_ago,
         newest_date |-> today]

\* _fetch_full_activities: the window asked for
full_window(now) ==
    [oldest_date |-> now[1] - history_initial_lookback_days, newest_date |-> now[1]]

\* _fetch_planned_events: the window asked for
events_window(last_event_date, force_full, now) ==
    LET two_weeks_ago == now[1] - RefreshDays
    IN  IF force_full \/ last_event_date = NoneNum
        THEN [oldest_date |-> now[1] - planned_events_lookback_days,
              newest_date |-> now[1] + planned_events_lookahead_days]
        ELSE [oldest_date |-> MinDay(two_weeks_ago, last_event_date),
              newest_date |-> now[1] + planned_events_lookahead_days]

(***************************************************************************)
(* dashboard_service.py                                                    *)
(***************************************************************************)
time_constant == 42

\* faulty variant: `daily_tss[date_str] = tss`, the last activity of the day
day_tss_last(workout_history, d) ==
    LET on_day == SelectSeq(workout_history, LAMBDA w : w.date[1] = d)
    IN  IF on_day = <<>> THEN 0
        ELSE OrZero(on_day[Len(on_day)].training_stress_score)

\* _calculate_daily_ctl, `daily_tss.get(curr_date_str, 0)`: the sum of
\* `training_stress_score or 0` over the activities of the day
day_tss(workout_history, d) ==
    SumSeq(SelectSeq(workout_history, LAMBDA w : w.date[1] = d),
           LAMBDA w : OrZero(w.training_stress_score))

\* faulty variant: no seed, the first value is ramped up from zero
ctl_step_unseeded(ctl, tss) ==
    IF (time_constant - 1) * ctl[1] + tss * ctl[2] = 0 THEN <<0, 1>>
    ELSE <<(time_constant - 1) * ctl[1] + tss * ctl[2], time_constant * ctl[2]>>

\* _calculate_daily_ctl, the body of the loop: the CTL of the day from the CTL
\* of the day before, both exact fractions <<numerator, denominator>>;
\* ctl + (day_tss - ctl) / 42 is (41 * ctl + day_tss) / 42
ctl_step(ctl, tss) ==
    IF ctl[1] = 0 /\ tss > 0 THEN <<tss, 1>>
    ELSE IF (time_constant - 1) * ctl[1] + tss * ctl[2] = 0 THEN <<0, 1>>
    ELSE <<(time_constant - 1) * ctl[1] + tss * ctl[2], time_constant * ctl[2]>>

\* _calculate_daily_ctl on the activities of completed_activities.json: the
\* points in the order they are emitted, each with the day's TSS and the CTL as
\* an exact fraction <<numerator, denominator>>; <<>> is the empty dict.
\* A null date raises in `.split` and the first of the sorted keys must parse
\* (a missing date gives the key "", the smallest; a string that is no date
\* sorts before or after the dates: garbage_low); any exception returns {}.
calculate_daily_ctl(workout_history, now, garbage_low) ==
    LET keys == {workout_history[i].date[1] : i \in 1..Len(workout_history)}
        dated == {k \in keys : ParsesAsDate(k)}
        start_date == CHOOSE k \in dated : \A other \in dated : k <= other
        RECURSIVE points(_, _)
        points(curr_date, ctl) ==
            IF curr_date > now[1] THEN <<>>
            ELSE LET tss == day_tss(workout_history, curr_date)
                     next == ctl_step(ctl, tss)
                 IN  <<[date |-> curr_date, tss |-> tss, ctl |-> next]>>
                     \o points(curr_date + 1, next)
    IN  IF \/ keys = {}
           \/ Null \in keys
           \/ NoneNum \in keys
           \/ Malformed \in keys /\ garbage_low
           \/ dated = {}
        THEN <<>>
        ELSE points(start_date, <<0, 1>>)

(***************************************************************************)
(* State                                                                   *)
(***************************************************************************)
VARIABLES
    cin,        \* arguments of one call of _calculate_match_confidence
    cout,       \* its return value (NoneNum before the call)
    minp,       \* arguments of one call of match_workouts
    mpc,        \* position in match_workouts: start, phase2, done
    mp1,        \* the four lists returned by _use_paired_event_id
    mloc,       \* the locals of _fuzzy_match
    mscored,    \* the (activity id, event id) pairs scored in phase 2 so far
    mout,       \* the value returned by match_workouts
    now,        \* datetime.now(): <<day, tod>>, tod 0 being midnight sharp
    remote_activities,  \* the activities the provider holds
    remote_events,      \* the planned events the provider holds
    api_order,  \* the order in which the provider lists records
    files,      \* the persisted documents
    spc,        \* position in sync_athlete_data
    loc,        \* the locals of sync_athlete_data
    hist,       \* history: the documents before the sync, what happened since
    fin,        \* arguments of one call of the function a specification applies
    fout        \* <<its return value>> (NoReturn before the call)

cvars == <<cin, cout>>
mvars == <<minp, mpc, mp1, mloc, mscored, mout>>
env == <<now, remote_activities, remote_events, api_order>>
svars == <<env, files, spc, loc, hist>>
fvars == <<fin, fout>>
vars == <<cvars, mvars, svars, fvars>>

NoReturn == <<>>

CallIdle == fin = <<>> /\ fout = NoReturn

NoLists == [activities |-> <<>>, events |-> <<>>]

ConfIdle == cin = [activity |-> None, event |-> None, tss_threshold |-> NoneNum] /\ cout = NoneNum

MatchIdle ==
    /\ minp = [planned_events |-> <<>>, completed_activities |-> <<>>, tss_threshold |-> NoneNum]
    /\ mpc = "idle"
    /\ mp1 = use_paired_event_id(<<>>, <<>>)
    /\ mloc = fuzzy_start(<<>>, <<>>)
    /\ mscored = {}
    /\ mout = NoLists

\* The documents before the first sync: no file exists
NoFiles ==
    [completed_activities |-> <<>>,
     planned_events |-> <<>>,
     power_curves |-> <<>>,
     workout_index |-> build_workout_index(<<>>, <<>>),
     weekly_summary |-> <<>>,
     sync_metadata |-> <<>>,
     partial |-> {}]

\* The locals of sync_athlete_data before it runs
NoLocals ==
    [force_full |-> FALSE,
     do_full |-> FALSE,
     merged_events |-> FALSE,
     read_at |-> NoStamp,
     window |-> [oldest_date |-> NoneNum, newest_date |-> NoneNum],
     event_window |-> [oldest_date |-> NoneNum, newest_date |-> NoneNum],
     new_activities |-> <<>>,
     existing_activities |-> <<>>,
     activities |-> <<>>,
     new_events |-> <<>>,
     existing_events |-> <<>>,
     events |-> <<>>,
     power_curves |-> <<>>,
     matched_activities |-> <<>>,
     matched_events |-> <<>>,
     workout_index |-> build_workout_index(<<>>, <<>>),
     weekly_stats |-> <<>>,
     saved |-> 0]

\* failed: the step at which the last sync raised (None: it did not raise);
\* abandoned: the caller of the sync in flight has timed out, at_timeout being
\* the documents at that moment
NoHistory ==
    [before |-> NoFiles, syncs |-> 0, changes |-> 0, quiet |-> FALSE, repeated |-> FALSE,
     failed |-> None, abandoned |-> FALSE, at_timeout |-> NoFiles]

SyncIdle ==
    /\ now = NoStamp
    /\ remote_activities = {}
    /\ remote_events = {}
    /\ api_order = "asc"
    /\ files = NoFiles
    /\ spc = "off"
    /\ loc = NoLocals
    /\ hist = NoHistory

(***************************************************************************)
(* SpecConf: _calculate_match_confidence applied to one pair               *)
(***************************************************************************)
ConfTypes == {"Ride", "VirtualRide", "Run"}
ConfActivityTss == {NoneNum, 0, 40, 44, 45, 50, 55, 56, 60, 61, 70, 100}
ConfEventTss == {NoneNum, 0, 41, 50, 60, 100}
ConfThresholds == {5, 20, 30, 100}

InitConf ==
    /\ cin \in [activity : [type : ConfTypes, training_stress_score : ConfActivityTss],
                event : [type : ConfTypes, icu_training_load : ConfEventTss],
                tss_threshold : ConfThresholds]
    /\ cout = NoneNum
    /\ MatchIdle
    /\ SyncIdle
    /\ CallIdle

Score ==
    /\ cout = NoneNum
    /\ cout' = calculate_match_confidence(cin.activity, cin.event, cin.tss_threshold)
    /\ UNCHANGED <<cin, mvars, svars, fvars>>

NextConf == Score

SpecConf == InitConf /\ [][NextConf]_vars

(***************************************************************************)
(* SpecMatch: one call of match_workouts, phase by phase                   *)
(***************************************************************************)
DefaultTssThreshold == 20

MatchDates == {<<10, 1>>, <<11, 1>>}

\* annotations a record can carry from an earlier pass: none, or a link
ActivityRecords(id, types, tss, paired, earlier) ==
    {[id |-> id, date |-> d, type |-> t, training_stress_score |-> x,
      paired_event_id |-> p, planned_event_id |-> old[1],
      planned_match_confidence |-> old[2]] :
        d \in MatchDates, t \in types, x \in tss, p \in paired, old \in earlier}

EventRecords(id, types, tss, earlier) ==
    {[id |-> id, start_date_local |-> d, type |-> t, icu_training_load |-> x,
      completed |-> old[1], completed_activity_id |-> old[2],
      completion_date |-> old[3]] :
        d \in MatchDates, t \in types, x \in tss, old \in earlier}

Fresh == <<None, NoneNum>>
FreshEvent == <<FALSE, None, NoStamp>>

MatchA1 == ActivityRecords("a1", {"Ride", "Run"}, {50, 60}, {None, "e1"}, {Fresh})
MatchA2 == ActivityRecords("a2", {"Ride", "Run"}, {50, 60}, {None, "e1"},
                           {Fresh, <<"e2", 70>>})
MatchE1 == EventRecords("e1", {"Ride", "Run"}, {50, NoneNum}, {FreshEvent})
MatchE2 == EventRecords("e2", {"Ride", "Run"}, {50, NoneNum},
                        {FreshEvent, <<TRUE, "a1", <<10, 1>>>>})

MatchActivityLists ==
    {<<>>} \cup {<<a>> : a \in MatchA1 \cup MatchA2}
           \cup {<<a, b>> : a \in MatchA1, b \in MatchA2}

MatchEventLists ==
    {<<>>} \cup {<<e>> : e \in MatchE1} \cup {<<e, f>> : e \in MatchE1, f \in MatchE2}

InitMatch ==
    /\ minp \in [planned_events : MatchEventLists,
                 completed_activities : MatchActivityLists,
                 tss_threshold : {DefaultTssThreshold}]
    /\ mpc = "start"
    /\ mp1 = use_paired_event_id(<<>>, <<>>)
    /\ mloc = fuzzy_start(<<>>, <<>>)
    /\ mscored = {}
    /\ mout = NoLists
    /\ ConfIdle
    /\ SyncIdle
    /\ CallIdle

\* match_workouts, phase 1
Phase1 ==
    /\ mpc = "start"
    /\ mp1' = use_paired_event_id(minp.completed_activities, minp.planned_events)
    /\ mloc' = fuzzy_start(mp1'.unmatched_activities, mp1'.unmatched_events)
    /\ mpc' = "phase2"
    /\ UNCHANGED <<minp, mscored, mout, cvars, svars, fvars>>

\* match_workouts, phase 2: one iteration of the loop of _fuzzy_match
FuzzyIteration ==
    /\ mpc = "phase2"
    /\ mloc.idx < Len(mloc.activities)
    /\ mscored' = mscored \cup fuzzy_scored(mloc)
    /\ mloc' = fuzzy_iteration(mloc, minp.tss_threshold)
    /\ UNCHANGED <<minp, mpc, mp1, mout, cvars, svars, fvars>>

\* match_workouts, "Combine results" and return
Combine ==
    /\ mpc = "phase2"
    /\ mloc.idx >= Len(mloc.activities)
    /\ mout' = combine(mp1, mloc)
    /\ mpc' = "done"
    /\ UNCHANGED <<minp, mp1, mloc, mscored, cvars, svars, fvars>>

NextMatch == Phase1 \/ FuzzyIteration \/ Combine

SpecMatch == InitMatch /\ [][NextMatch]_vars

(***************************************************************************)
(* SpecSync: sync_athlete_data against a provider whose data changes       *)
(*                                                                         *)
(* One call of sync_athlete_data is five steps (activities, events, match  *)
(* and index, save, metadata); between two calls the clock advances and    *)
(* the athlete adds, edits or deletes a record at the provider.  The       *)
(* provider answers a date range with the records dated in it (both ends   *)
(* included), listed by date, oldest first or newest first (api_order):    *)
(* the client does not sort and the code fixes no order.  The clock does   *)
(* not advance during a call.  The call is made with skip_power_curves     *)
(* False, its default: the power curves are fetched, never reloaded.       *)
(***************************************************************************)
FirstDay == 20
MaxDay == 21
MaxSyncs == 2
MaxRemoteChanges == 1

\* calendar days of the provider's records, relative to FirstDay: older than the
\* refresh window, on its first day, the day before FirstDay, and ahead
OldDay == FirstDay - RefreshDays - 1
BoundaryDay == FirstDay - RefreshDays
RecentDay == FirstDay - 1
FutureDay == FirstDay + 5

\* a record as the provider returns it: no annotation of the matcher
RemoteActivity(id, tod, day, paired, tss) ==
    [id |-> id, date |-> <<day, tod>>, type |-> "Ride", training_stress_score |-> tss,
     paired_event_id |-> paired, planned_event_id |-> None,
     planned_match_confidence |-> NoneNum]

RemoteEvent(id, tod, name, day, tss) ==
    [id |-> id, start_date_local |-> <<day, tod>>, type |-> "Ride", name |-> name,
     icu_training_load |-> tss, completed |-> FALSE, completed_activity_id |-> None,
     completion_date |-> NoStamp]

ActivityIds == {"a1", "a2"}
EventIds == {"e1", "e2"}

ActivityChoices(id) ==
    IF id = "a1"
    THEN {RemoteActivity("a1", 1, d, p, 50) :
             d \in {OldDay, BoundaryDay, RecentDay}, p \in {None, "e1"}}
    ELSE {RemoteActivity("a2", 2, d, None, 50) : d \in {BoundaryDay, RecentDay}}

EventChoices(id) ==
    IF id = "e1"
    THEN {RemoteEvent("e1", 1, "Tempo", d, 50) : d \in {OldDay, BoundaryDay, RecentDay}}
    ELSE {RemoteEvent("e2", 2, "", d, 50) : d \in {RecentDay, FutureDay}}

\* no record or one record of a set
Opt(S) == {{}} \cup {{r} : r \in S}

InitSync ==
    /\ now = <<FirstDay, 1>>
    /\ remote_activities \in {x \cup y : x \in Opt(ActivityChoices("a1")),
                                         y \in Opt(ActivityChoices("a2"))}
    /\ remote_events \in {x \cup y : x \in Opt(EventChoices("e1")),
                                     y \in Opt(EventChoices("e2"))}
    /\ api_order \in {"asc", "desc"}
    /\ files = NoFiles
    /\ spc = "idle"
    /\ loc = NoLocals
    /\ hist = NoHistory
    /\ ConfIdle
    /\ MatchIdle
    /\ CallIdle

\* sync_athlete_data: load the metadata, choose the strategy, fetch the
\* activities and, on an incremental sync, merge them with the persisted ones
SyncFetchActivities ==
    /\ spc = "idle"
    /\ hist.syncs < MaxSyncs
    /\ \E force_full \in BOOLEAN :
          LET metadata == load_document(files, "sync_metadata")
              do_full == force_full \/ should_do_full_sync(metadata)
              window == IF do_full THEN full_window(now)
                        ELSE incremental_window(get_last_activity_date(metadata), now)
              fetched == get_workout_history(remote_activities, window.oldest_date,
                                             window.newest_date, api_order)
              existing_activities == IF do_full THEN <<>>
                                     ELSE load_document(files, "completed_activities")
          IN  loc' = [NoLocals EXCEPT
                        !.force_full = force_full,
                        !.do_full = do_full,
                        !.read_at = now,
                        !.window = window,
                        !.new_activities = fetched,
                        !.existing_activities = existing_activities,
                        !.activities = IF do_full THEN fetched
                                       ELSE merge_activities(existing_activities, fetched, now)]
    /\ spc' = "events"
    /\ hist' = [hist EXCEPT !.before = files, !.failed = None, !.abandoned = FALSE]
    /\ UNCHANGED <<env, files, cvars, mvars, fvars>>

\* faulty variant: the events are persisted as soon as they are fetched
SyncFetchEventsSavingEarly ==
    /\ spc = "events"
    /\ LET last_event_date == get_last_event_date(load_document(files, "sync_metadata"))
           window == events_window(last_event_date, loc.do_full, now)
           fetched == get_planned_events(remote_events, window.oldest_date,
                                         window.newest_date, api_order)
       IN  /\ loc' = [loc EXCEPT !.event_window = window,
                                 !.new_events = fetched,
                                 !.events = fetched]
           /\ files' = [files EXCEPT !.planned_events = fetched]
    /\ spc' = "match"
    /\ UNCHANGED <<env, hist, cvars, mvars, fvars>>

\* sync_athlete_data, _fetch_planned_events(metadata, do_full)
SyncFetchEvents ==
    /\ spc = "events"
    /\ LET last_event_date == get_last_event_date(load_document(files, "sync_metadata"))
           window == events_window(last_event_date, loc.do_full, now)
           fetched == get_planned_events(remote_events, window.oldest_date,
                                         window.newest_date, api_order)
           merging == ~loc.do_full /\ last_event_date # NoneNum
           existing_events == IF merging THEN load_document(files, "planned_events") ELSE <<>>
       IN  loc' = [loc EXCEPT
                     !.merged_events = merging,
                     !.event_window = window,
                     !.new_events = fetched,
                     !.existing_events = existing_events,
                     !.events = IF merging THEN merge_events(existing_events, fetched, now)
                                ELSE fetched]
    /\ spc' = "match"
    /\ UNCHANGED <<env, files, hist, cvars, mvars, fvars>>

\* sync_athlete_data, phases 3 to 6: _fetch_power_curves (skip_power_curves is
\* False, its default), match_workouts, build_workout_index, _aggregate_weekly
SyncMatch ==
    /\ spc = "match"
    /\ LET matched == match_workouts(loc.events, loc.activities, DefaultTssThreshold)
       IN  loc' = [loc EXCEPT
                     !.power_curves = fetch_power_curves(now),
                     !.matched_activities = matched.activities,
                     !.matched_events = matched.events,
                     !.workout_index = build_workout_index(matched.activities,
                                                           matched.events),
                     !.weekly_stats = aggregate_weekly(matched.activities)]
    /\ spc' = "save"
    /\ UNCHANGED <<env, files, hist, cvars, mvars, fvars>>

\* sync_athlete_data, phase 7: _save_all_data
SyncSave ==
    /\ spc = "save"
    /\ files' = save_all_data(files, loc)
    /\ spc' = "metadata"
    /\ loc' = [loc EXCEPT !.saved = Len(SaveOrder)]
    /\ UNCHANGED <<env, hist, cvars, mvars, fvars>>

\* sync_athlete_data, phase 8: _create_metadata, save_sync_metadata, return
SyncMetadata ==
    /\ spc = "metadata"
    /\ files' = [files EXCEPT
                    !.sync_metadata = <<create_metadata(loc.matched_activities,
                                                        loc.matched_events, now)>>,
                    !.partial = @ \ {"sync_metadata"}]
    /\ spc' = "idle"
    /\ loc' = NoLocals
    /\ hist' = [hist EXCEPT !.syncs = @ + 1, !.repeated = hist.quiet, !.quiet = TRUE]
    /\ UNCHANGED <<env, cvars, mvars, fvars>>

\* time passes between two syncs
Tick ==
    /\ spc = "idle"
    /\ now' = IF now[2] = 0 THEN <<now[1], 1>> ELSE <<now[1] + 1, 0>>
    /\ now'[1] <= MaxDay
    /\ hist' = [hist EXCEPT !.quiet = FALSE]
    /\ UNCHANGED <<remote_activities, remote_events, api_order, files, spc, loc,
                   cvars, mvars, fvars>>

Changed == [hist EXCEPT !.changes = @ + 1, !.quiet = FALSE]

\* the athlete deletes a record at the provider
RemoteDelete ==
    /\ spc = "idle"
    /\ hist.changes < MaxRemoteChanges
    /\ \/ \E a \in remote_activities :
             /\ remote_activities' = remote_activities \ {a}
             /\ UNCHANGED remote_events
       \/ \E e \in remote_events :
             /\ remote_events' = remote_events \ {e}
             /\ UNCHANGED remote_activities
    /\ hist' = Changed
    /\ UNCHANGED <<now, api_order, files, spc, loc, cvars, mvars, fvars>>

\* the athlete edits a record at the provider (its training load changes)
RemoteEdit ==
    /\ spc = "idle"
    /\ hist.changes < MaxRemoteChanges
    /\ \/ \E a \in remote_activities :
             /\ remote_activities' = (remote_activities \ {a})
                    \cup {[a EXCEPT !.training_stress_score = 110 - @]}
             /\ UNCHANGED remote_events
       \/ \E e \in remote_events :
             /\ remote_events' = (remote_events \ {e})
                    \cup {[e EXCEPT !.icu_training_load = 110 - @]}
             /\ UNCHANGED remote_activities
    /\ hist' = Changed
    /\ UNCHANGED <<now, api_order, files, spc, loc, cvars, mvars, fvars>>

\* a new record appears at the provider
RemoteAdd ==
    /\ spc = "idle"
    /\ hist.changes < MaxRemoteChanges
    /\ \/ \E id \in ActivityIds \ {a.id : a \in remote_activities} :
             \E a \in ActivityChoices(id) :
                /\ remote_activities' = remote_activities \cup {a}
                /\ UNCHANGED remote_events
       \/ \E id \in EventIds \ {e.id : e \in remote_events} :
             \E e \in EventChoices(id) :
                /\ remote_events' = remote_events \cup {e}
                /\ UNCHANGED remote_activities
    /\ hist' = Changed
    /\ UNCHANGED <<now, api_order, files, spc, loc, cvars, mvars, fvars>>

NextSync ==
    \/ SyncFetchActivities
    \/ SyncFetchEvents
    \/ SyncMatch
    \/ SyncSave
    \/ SyncMetadata
    \/ Tick
    \/ RemoteDelete
    \/ RemoteEdit
    \/ RemoteAdd

SpecSync == InitSync /\ [][NextSync]_vars

(***************************************************************************)
(* SpecPersist: sync_athlete_data with its failures and its caller's       *)
(* timeout                                                                 *)
(*                                                                         *)
(* The steps are those of SpecSync, but _save_all_data is taken one write  *)
(* at a time.  Any step may raise: sync_athlete_data and _save_all_data    *)
(* catch nothing, so the call ends there.  A write that raises leaves its  *)
(* document untouched (open failed) or truncated (open(path, 'w') emptied  *)
(* it and json.dump did not finish): files.partial holds the names of the  *)
(* truncated documents.  save_sync_metadata catches and logs, the call     *)
(* then returns normally.  The callers run the call in a worker thread     *)
(* (asyncio.to_thread) under asyncio.wait_for: at the timeout the caller   *)
(* goes on with the persisted data, the thread is not interrupted.         *)
(***************************************************************************)
InitPersist ==
    /\ now = <<FirstDay, 1>>
    /\ remote_activities = {RemoteActivity("a1", 1, RecentDay, None, 50)}
    /\ remote_events = {RemoteEvent("e1", 1, "Tempo", RecentDay, 50)}
    /\ api_order = "asc"
    /\ files = NoFiles
    /\ spc = "idle"
    /\ loc = NoLocals
    /\ hist = NoHistory
    /\ ConfIdle
    /\ MatchIdle
    /\ CallIdle

\* _save_all_data, the next `with open(path, 'w')` block
SaveDocument ==
    /\ spc = "save"
    /\ loc.saved < Len(SaveOrder)
    /\ files' = write_document(files, loc, SaveOrder[loc.saved + 1])
    /\ loc' = [loc EXCEPT !.saved = @ + 1]
    /\ spc' = IF loc.saved + 1 = Len(SaveOrder) THEN "metadata" ELSE "save"
    /\ UNCHANGED <<env, hist, cvars, mvars, fvars>>

\* the call ends with an exception
Raised(step) ==
    [hist EXCEPT !.syncs = @ + 1, !.failed = step, !.quiet = FALSE, !.repeated = FALSE,
                 !.before = IF step = "activities" THEN files ELSE @,
                 !.abandoned = IF step = "activities" THEN FALSE ELSE @]

\* sync_athlete_data, phases 1 to 6: the step about to run raises (a request
\* of IntervalsClient after its retries, a KeyError of the matcher); nothing
\* is caught
StepRaises ==
    /\ spc \in {"idle", "events", "match"}
    /\ hist.syncs < MaxSyncs
    /\ hist' = Raised(IF spc = "idle" THEN "activities" ELSE spc)
    /\ spc' = "idle"
    /\ loc' = NoLocals
    /\ UNCHANGED <<env, files, cvars, mvars, fvars>>

\* _save_all_data: the write about to run raises, at open() or in json.dump
WriteRaises ==
    /\ spc = "save"
    /\ loc.saved < Len(SaveOrder)
    /\ \E truncated \in BOOLEAN :
          files' = IF truncated
                   THEN [files EXCEPT !.partial = @ \cup {SaveOrder[loc.saved + 1]}]
                   ELSE files
    /\ hist' = Raised("save")
    /\ spc' = "idle"
    /\ loc' = NoLocals
    /\ UNCHANGED <<env, cvars, mvars, fvars>>

\* save_sync_metadata: the write raises, the exception is logged and the call
\* returns normally
SyncMetadataUnsaved ==
    /\ spc = "metadata"
    /\ \E truncated \in BOOLEAN :
          files' = IF truncated THEN [files EXCEPT !.partial = @ \cup {"sync_metadata"}]
                   ELSE files
    /\ spc' = "idle"
    /\ loc' = NoLocals
    /\ hist' = [hist EXCEPT !.syncs = @ + 1, !.repeated = FALSE, !.quiet = FALSE]
    /\ UNCHANGED <<env, cvars, mvars, fvars>>

\* asyncio.wait_for(asyncio.to_thread(sync_athlete_data), timeout): the timeout
\* expires while the call is running; the caller logs "using existing data" and
\* goes on, the worker thread keeps running
Timeout ==
    /\ spc \in {"events", "match", "save", "metadata"}
    /\ ~hist.abandoned
    /\ hist' = [hist EXCEPT !.abandoned = TRUE, !.at_timeout = files]
    /\ UNCHANGED <<env, files, spc, loc, cvars, mvars, fvars>>

NextPersist ==
    \/ SyncFetchActivities
    \/ SyncFetchEvents
    \/ SyncMatch
    \/ SaveDocument
    \/ SyncMetadata
    \/ SyncMetadataUnsaved
    \/ StepRaises
    \/ WriteRaises
    \/ Timeout
    \/ Tick
    \/ RemoteDelete
    \/ RemoteEdit
    \/ RemoteAdd

SpecPersist == InitPersist /\ [][NextPersist]_vars

(***************************************************************************)
(* SpecIndex: build_workout_index and _aggregate_weekly on the lists that  *)
(* match_workouts returns                                                  *)
(*                                                                         *)
(* The records are the provider's: up to two activities and two events,    *)
(* with dates that are missing or no dates at all, training loads that     *)
(* are missing or zero, and an activity paired by the provider.  Day 0 is  *)
(* a Monday: days 8 and 9 are in one week, days 2 and 15 in two others.    *)
(***************************************************************************)
IndexActivityLists ==
    LET first == {[RemoteActivity("a1", 1, 8, p, tss) EXCEPT !.date = d] :
                     p \in {None, "e1"}, tss \in {NoneNum, 0, 80},
                     d \in {<<8, 1>>, <<2, 1>>, <<Malformed, 0>>, NoStamp}}
        second == {RemoteActivity("a2", 2, d, None, 50) : d \in {8, 9}}
    IN  {<<>>} \cup {<<a>> : a \in first} \cup {<<a, b>> : a \in first, b \in second}

IndexEventLists ==
    LET first == {[RemoteEvent("e1", 0, "Tempo", 8, tss) EXCEPT !.start_date_local = d] :
                     tss \in {NoneNum, 0, 75},
                     d \in {<<8, 0>>, <<Malformed, 0>>, NoStamp}}
        second == {RemoteEvent("e2", 0, "", d, 60) : d \in {8, 15}}
    IN  {<<>>} \cup {<<e>> : e \in first} \cup {<<e, f>> : e \in first, f \in second}

InitIndex ==
    /\ fin \in [activities : IndexActivityLists, events : IndexEventLists]
    /\ fout = NoReturn
    /\ ConfIdle
    /\ MatchIdle
    /\ SyncIdle

\* sync_athlete_data, phases 4 to 6 on these lists
BuildIndex ==
    /\ fout = NoReturn
    /\ LET matched == match_workouts(fin.events, fin.activities, DefaultTssThreshold)
       IN  fout' = <<[activities |-> matched.activities,
                      events |-> matched.events,
                      workout_index |-> build_workout_index(matched.activities,
                                                            matched.events),
                      weekly_stats |-> aggregate_weekly(matched.activities)]>>
    /\ UNCHANGED <<fin, cvars, mvars, svars>>

NextIndex == BuildIndex

SpecIndex == InitIndex /\ [][NextIndex]_vars

(***************************************************************************)
(* SpecMerge: _merge_activities and _merge_events on persisted records     *)
(* whose date is missing, null or no date                                  *)
(*                                                                         *)
(* Up to two persisted records and up to two fetched ones, merged at       *)
(* FirstDay; a fetched record may carry the id of a persisted one.         *)
(***************************************************************************)
MergeDates ==
    {NoStamp, <<Null, 0>>, <<Malformed, 0>>, <<OldDay, 1>>, <<RecentDay, 1>>}

\* the lists of at most two records, the first from firsts, the second from seconds
MergeLists(firsts, seconds) ==
    {<<>>} \cup {<<r>> : r \in firsts} \cup {<<r, q>> : r \in firsts, q \in seconds}

InitMerge ==
    /\ \/ fin \in [kind : {"activities"},
                    existing : MergeLists(
                        {[RemoteActivity("a1", 1, 0, None, 50) EXCEPT !.date = d] :
                            d \in MergeDates},
                        {[RemoteActivity("a2", 2, 0, None, 50) EXCEPT !.date = d] :
                            d \in {<<Null, 0>>, <<OldDay, 2>>}}),
                    new : MergeLists({RemoteActivity(id, 3, RecentDay, None, 60) :
                                         id \in {"a1", "a3"}},
                                     {RemoteActivity("a4", 4, RecentDay, None, 60)}),
                    now : {<<FirstDay, 1>>}]
       \/ fin \in [kind : {"events"},
                    existing : MergeLists(
                        {[RemoteEvent("e1", 1, "Tempo", 0, 50)
                             EXCEPT !.start_date_local = d] : d \in MergeDates},
                        {[RemoteEvent("e2", 2, "", 0, 50)
                             EXCEPT !.start_date_local = d] :
                            d \in {<<Null, 0>>, <<OldDay, 2>>}}),
                    new : MergeLists({RemoteEvent(id, 3, "Tempo", RecentDay, 60) :
                                         id \in {"e1", "e3"}},
                                     {RemoteEvent("e4", 4, "", RecentDay, 60)}),
                    now : {<<FirstDay, 1>>}]
    /\ fout = NoReturn
    /\ ConfIdle
    /\ MatchIdle
    /\ SyncIdle

\* _merge_activities(existing, new): the merged list, or the TypeError of its sort
MergeActivities ==
    /\ fin.kind = "activities"
    /\ fout = NoReturn
    /\ LET merged == merge_activities(fin.existing, fin.new, fin.now)
       IN  fout' = IF sort_raises(merged, "date")
                   THEN <<[error |-> "TypeError", merged |-> <<>>]>>
                   ELSE <<[error |-> None, merged |-> merged]>>
    /\ UNCHANGED <<fin, cvars, mvars, svars>>

\* _merge_events(existing, new): the merged list, or the TypeError of its sort
MergeEvents ==
    /\ fin.kind = "events"
    /\ fout = NoReturn
    /\ LET merged == merge_events(fin.existing, fin.new, fin.now)
       IN  fout' = IF sort_raises(merged, "start_date_local")
                   THEN <<[error |-> "TypeError", merged |-> <<>>]>>
                   ELSE <<[error |-> None, merged |-> merged]>>
    /\ UNCHANGED <<fin, cvars, mvars, svars>>

NextMerge == MergeActivities \/ MergeEvents

SpecMerge == InitMerge /\ [][NextMerge]_vars

(***************************************************************************)
(* SpecLoad: _calculate_daily_ctl on a persisted activity list             *)
(*                                                                         *)
(* Up to three activities in the four days that end today (FirstDay), two  *)
(* of them possibly on the same day, the first one possibly without a      *)
(* date, with a null date or with a string that is no date.                *)
(***************************************************************************)
LoadHistories ==
    LET first == {[RemoteActivity("a1", 1, 0, None, tss) EXCEPT !.date = d] :
                     tss \in {NoneNum, 0, 40},
                     d \in {<<FirstDay - 3, 1>>, <<FirstDay - 2, 1>>, NoStamp,
                            <<Null, 0>>, <<Malformed, 0>>}}
        second == {RemoteActivity("a2", 2, d, None, 30) : d \in {FirstDay - 2, FirstDay}}
        third == RemoteActivity("a3", 3, FirstDay - 2, None, 20)
    IN  {<<>>} \cup {<<a>> : a \in first} \cup {<<a, b>> : a \in first, b \in second}
        \cup {<<b, a, third>> : a \in first, b \in second}

InitLoad ==
    /\ fin \in [workout_history : LoadHistories, now : {<<FirstDay, 1>>},
                 garbage_low : BOOLEAN]
    /\ fout = NoReturn
    /\ ConfIdle
    /\ MatchIdle
    /\ SyncIdle

\* DashboardService._calculate_daily_ctl
CalculateLoad ==
    /\ fout = NoReturn
    /\ fout' = <<calculate_daily_ctl(fin.workout_history, fin.now, fin.garbage_low)>>
    /\ UNCHANGED <<fin, cvars, mvars, svars>>

NextLoad == CalculateLoad

SpecLoad == InitLoad /\ [][NextLoad]_vars

(***************************************************************************)
(* SpecEma: the loop of _calculate_daily_ctl, one day after the other      *)
(*                                                                         *)
(* fin is the TSS of the days so far, fout the running CTL as an exact     *)
(* fraction (the code starts it at 0).                                     *)
(***************************************************************************)
MaxLoadDays == 4

\* the TSS of a day: none, or the sum of the day's activities
EmaTss == {0, 5, 10}

InitEma ==
    /\ fin = <<>>
    /\ fout = <<0, 1>>
    /\ ConfIdle
    /\ MatchIdle
    /\ SyncIdle

\* one turn of `while curr_date <= end_date`
EmaDay ==
    /\ Len(fin) < MaxLoadDays
    /\ \E tss \in EmaTss :
          /\ fin' = Append(fin, tss)
          /\ fout' = ctl_step(fout, tss)
    /\ UNCHANGED <<cvars, mvars, svars>>

NextEma == EmaDay

SpecEma == InitEma /\ [][NextEma]_vars

(***************************************************************************)
(* Properties of the sync                                                  *)
(***************************************************************************)

\* the activities of an incremental sync have been merged
ActivitiesMerged == spc \in {"events", "match", "save", "metadata"} /\ ~loc.do_full

\* the events of a sync have been merged with the persisted ones
EventsMerged == spc \in {"match", "save", "metadata"} /\ loc.merged_events

\* the record is in no list the sync has built so far, the persisted one included
AbsentActivity(id) ==
    /\ id \notin Ids(loc.activities)
    /\ spc \in {"save", "metadata"} => id \notin Ids(loc.matched_activities)
    /\ spc = "metadata" => id \notin Ids(files.completed_activities)

\* the calendar date is fewer than 14 days before the day of the merge
FewerThanRefreshDaysAgo(stamp) ==
    extract_date(stamp) # NoneNum /\ loc.read_at[1] - extract_date(stamp) < RefreshDays

\* C1: in an incremental sync, a persisted activity whose calendar date is fewer
\* than 14 days before today and whose id the fresh fetch does not return is
\* absent from the merged activities and from the activities the sync persists.
C1_RecentDeletionPropagated ==
    ActivitiesMerged =>
        \A a \in Range(loc.existing_activities) :
            (FewerThanRefreshDaysAgo(a.date) /\ a.id \notin Ids(loc.new_activities))
                => AbsentActivity(a.id)

\* an incremental sync has persisted its activities, and one persisted before,
\* dated inside the last 14 days and deleted at the provider, is gone
C1_Witness ==
    /\ ActivitiesMerged
    /\ spc = "metadata"
    /\ \E a \in Range(loc.existing_activities) :
          /\ FewerThanRefreshDaysAgo(a.date)
          /\ a.id \notin Ids(loc.new_activities)
          /\ a.id \notin {r.id : r \in remote_activities}
          /\ a.id \notin Ids(files.completed_activities)

InWindow(stamp, window) ==
    /\ extract_date(stamp) # NoneNum
    /\ window.oldest_date <= extract_date(stamp)
    /\ extract_date(stamp) <= window.newest_date

\* C2: every persisted activity or event dated inside the window the incremental
\* sync re-fetches (from min(last known date, today - 14 days), boundary days
\* included) and not returned by the fresh fetch is absent from the merged result.
C2_RefetchedWindowPropagated ==
    /\ ActivitiesMerged =>
          \A a \in Range(loc.existing_activities) :
              (InWindow(a.date, loc.window) /\ a.id \notin Ids(loc.new_activities))
                  => a.id \notin Ids(loc.activities)
    /\ EventsMerged =>
          \A e \in Range(loc.existing_events) :
              (InWindow(e.start_date_local, loc.event_window)
               /\ e.id \notin Ids(loc.new_events))
                  => e.id \notin Ids(loc.events)

\* the record's date, at midnight, lies before the instant 14 days before the merge
StrictlyOlderThanBoundary(stamp) ==
    \/ extract_date(stamp) < loc.read_at[1] - RefreshDays
    \/ extract_date(stamp) = loc.read_at[1] - RefreshDays /\ 0 < loc.read_at[2]

\* the merge result the rule describes, as a set of records
MergeRule(existing, new, date_of(_)) ==
    {r \in Range(existing) : StrictlyOlderThanBoundary(date_of(r)) /\ r.id \notin Ids(new)}
        \cup Range(new)

C4_HighWaterMarks ==
    (spc = "idle" /\ files.sync_metadata # <<>>) =>
        LET metadata == files.sync_metadata[1]
            activities == Range(files.completed_activities)
            events == Range(files.planned_events)
        IN  /\ activities # {} =>
                  \E a \in activities :
                      /\ \A b \in activities : ~StampLess(a.date, b.date)
                      /\ metadata.last_activity_date = a.date
                      /\ metadata.last_activity_id = a.id
            /\ events # {} =>
                  \E e \in events :
                      /\ \A f \in events : extract_date(f.start_date_local)
                                              <= extract_date(e.start_date_local)
                      /\ metadata.last_event_date = extract_date(e.start_date_local)
                      /\ metadata.last_event_id = e.id

Links(activities) == {<<a.id, a.planned_event_id>> : a \in Range(activities)}

\* an index without the order of its lists
IndexContent(index) ==
    [by_date |-> [d \in DOMAIN index.by_date |->
                     [planned |-> Range(index.by_date[d].planned),
                      actual |-> Range(index.by_date[d].actual)]],
     by_week |-> index.by_week,
     by_type |-> [n \in DOMAIN index.by_type |-> Range(index.by_type[n])]]

\* C5: a sync run right after another, with no change at the provider, leaves
\* the same activity set, the same event set, the same match links and the same
\* by-date, by-week and by-type indices as the first run left.
C5_Idempotent ==
    (spc = "idle" /\ hist.repeated) =>
        /\ Range(files.completed_activities) = Range(hist.before.completed_activities)
        /\ Range(files.planned_events) = Range(hist.before.planned_events)
        /\ Links(files.completed_activities) = Links(hist.before.completed_activities)
        /\ IndexContent(files.workout_index) = IndexContent(hist.before.workout_index)

(***************************************************************************)
(* Properties of the workout matcher                                       *)
(***************************************************************************)

\* The records linked in the current pass, by either phase
LinkedActivityIds == Ids(mp1.matched_activities) \cup Ids(mloc.matched_activities)
LinkedEventIds == Ids(mp1.matched_events) \cup Ids(mloc.matched_events)

\* An input activity whose provider pairing id names an event of the input
Resolves(a) ==
    /\ a.paired_event_id # None
    /\ \E e \in Range(minp.planned_events) : e.id = a.paired_event_id

\* C6: after match no two activities of the output carry the same matched event
\* id (every event is linked to at most one activity), also when two activities
\* carry the same provider pairing id.
C6_AtMostOneLink ==
    mpc = "done" =>
        \A i, j \in 1..Len(mout.activities) :
            (i # j /\ mout.activities[i].planned_event_id # None)
                => mout.activities[i].planned_event_id # mout.activities[j].planned_event_id

\* C7: after match a record that was not linked in this pass carries no link
\* annotation, whatever annotation it carried on input.
C7_AnnotationsOverwritten ==
    mpc = "done" =>
        /\ \A a \in Range(mout.activities) :
              a.id \notin LinkedActivityIds
                => a.planned_event_id = None /\ a.planned_match_confidence = NoneNum
        /\ \A e \in Range(mout.events) :
              e.id \notin LinkedEventIds
                => /\ e.completed = FALSE
                   /\ e.completed_activity_id = None
                   /\ e.completion_date = NoStamp

\* C8: an activity whose pairing id resolves to a known event is linked to that
\* event at confidence 1.0 by phase 1, is never scored or linked by phase 2, and
\* the event it is paired with is never a phase 2 candidate.
C8_AuthoritativeWins ==
    mpc \in {"phase2", "done"} =>
        \A a \in Range(minp.completed_activities) :
            Resolves(a) =>
                /\ \E m \in Range(mp1.matched_activities) :
                      /\ m.id = a.id
                      /\ m.planned_event_id = a.paired_event_id
                      /\ m.planned_match_confidence = 100
                /\ \A pr \in mscored : pr[1] # a.id /\ pr[2] # a.paired_event_id
                /\ a.id \notin Ids(mloc.activities)
                /\ a.paired_event_id \notin Ids(mloc.events)
                /\ a.id \notin Ids(mloc.matched_activities)
                /\ a.paired_event_id \notin Ids(mloc.matched_events)
                /\ mpc = "done" =>
                      /\ \E m \in Range(mout.activities) :
                            /\ m.id = a.id
                            /\ m.planned_event_id = a.paired_event_id
                            /\ m.planned_match_confidence = 100
                      /\ \E e \in Range(mout.events) :
                            /\ e.id = a.paired_event_id
                            /\ e.completed
                            /\ \E b \in Range(minp.completed_activities) :
                                  /\ b.id = e.completed_activity_id
                                  /\ b.paired_event_id = e.id

\* C8 witness: a paired activity kept its authoritative link although another
\* event of its date was free for fuzzy matching
C8_Witness ==
    /\ mpc = "done"
    /\ \E a \in Range(minp.completed_activities) :
          /\ Resolves(a)
          /\ \E e \in Range(mout.events) :
                /\ e.id # a.paired_event_id
                /\ e.start_date_local[1] = a.date[1]
                /\ ~e.completed
                /\ calculate_match_confidence(a, e, minp.tss_threshold) >= 70

\* C9 as stated: the confidence bands, a TSS counting as known when it is not None
C9_Claimed(a, e, thr, ActualKnown(_)) ==
    LET types_match == \/ a.type = e.type
                       \/ {a.type, e.type} \subseteq {"Ride", "VirtualRide"}
        x == a.training_stress_score
        p == e.icu_training_load
        usable == ActualKnown(x) /\ p # NoneNum /\ p > 0
    IN  IF ~types_match THEN 50
        ELSE IF usable /\ 100 * Abs(x - p) <= 10 * p THEN 95
        ELSE IF usable /\ 100 * Abs(x - p) > 10 * p /\ 100 * Abs(x - p) <= thr * p THEN 85
        ELSE 70

\* C9 (original): 0.50 when the types differ; with matching types 0.95 if both
\* TSS are known, planned TSS > 0 and the relative variance is <= 10%, 0.85 if it
\* is above 10% and <= the threshold, 0.70 otherwise.
C9_ConfidenceBands ==
    cout # NoneNum =>
        cout = C9_Claimed(cin.activity, cin.event, cin.tss_threshold,
                          LAMBDA x : x # NoneNum)

\* C9 (amended): the same bands, where the actual TSS counts as known only
\* when it is neither None nor zero.
C9_ConfidenceBandsNonZero ==
    cout # NoneNum =>
        cout = C9_Claimed(cin.activity, cin.event, cin.tss_threshold,
                          LAMBDA x : x # NoneNum /\ x # 0)

\* C9 witness: a pair scored in the 0.85 band under the default threshold
C9_Witness ==
    /\ cout = 85
    /\ cin.tss_threshold = 20
    /\ cin.activity.type = "VirtualRide"
    /\ cin.event.type = "Ride"
    /\ cin.activity.training_stress_score = 60
    /\ cin.event.icu_training_load = 50

\* C10, one iteration: the activity taken is the next, in input order, of those
\* phase 1 left unmatched; it is linked to the first event of highest confidence
\* among the events of its date not linked so far, and left alone if there is none.
C10_Step ==
    (mpc = "phase2" /\ mloc.idx < Len(mloc.activities)) =>
        LET i == mloc.idx + 1
            rest == SelectSeq(minp.completed_activities, LAMBDA a : ~Resolves(a))
            a == rest[i]
            evs == minp.planned_events
            cands == {j \in 1..Len(evs) :
                        /\ a.date[1] # NoneNum
                        /\ evs[j].start_date_local[1] = a.date[1]
                        /\ evs[j].id \notin LinkedEventIds}
            conf(j) == calculate_match_confidence(a, evs[j], minp.tss_threshold)
        IN  /\ mloc.activities[i].id = a.id
            /\ IF cands = {}
               THEN /\ mloc'.activities[i] = mloc.activities[i]
                    /\ mloc'.matched_activities = mloc.matched_activities
                    /\ mloc'.matched_events = mloc.matched_events
               ELSE LET best == CHOOSE j \in cands :
                                   /\ \A h \in cands : conf(h) <= conf(j)
                                   /\ \A h \in cands : h < j => conf(h) < conf(j)
                    IN  /\ mloc'.activities[i].planned_event_id = evs[best].id
                        /\ mloc'.activities[i].planned_match_confidence = conf(best)
                        /\ Len(mloc'.matched_events) = Len(mloc.matched_events) + 1
                        /\ mloc'.matched_events[Len(mloc'.matched_events)].id = evs[best].id
                        /\ mloc'.matched_events[Len(mloc'.matched_events)].completed_activity_id
                              = a.id

\* C10, the result: no activity left without a link shares its calendar date
\* with an event left without a link
C10_Final ==
    mpc = "done" =>
        \A a \in Range(mout.activities), e \in Range(mout.events) :
            (a.id \notin LinkedActivityIds /\ e.id \notin LinkedEventIds)
                => ~(a.date[1] # NoneNum /\ a.date[1] = e.start_date_local[1])

\* C10: phase 2 links each activity left by phase 1, in input order, to the
\* first event of highest confidence among the free events of its date, and an
\* activity stays unlinked only when there is no such event.
C10_BestCandidate == [][C10_Step]_vars /\ []C10_Final

\* C10 witness: phase 2 passed over the first event of the date for a later one
\* of higher confidence
C10_Witness ==
    /\ mpc = "done"
    /\ \E a \in Range(mloc.matched_activities) :
          /\ a.planned_event_id = "e2"
          /\ a.planned_match_confidence = 95
          /\ \E e \in Range(mout.events) :
                /\ e.id = "e1"
                /\ e.start_date_local[1] = a.date[1]
                /\ ~e.completed

\* the events a second candidate of the same date can be
ConfEvents == [type : ConfTypes, icu_training_load : ConfEventTss]

TypesMatch(a, e) ==
    a.type = e.type \/ {a.type, e.type} \subseteq {"Ride", "VirtualRide"}

\* the confidences of the scored event and of any other candidate, both of the
\* activity's type, are ordered as Closer orders the two events
C11_Ordered(Closer(_, _, _)) ==
    cout # NoneNum =>
        \A other \in ConfEvents :
            (/\ TypesMatch(cin.activity, cin.event)
             /\ TypesMatch(cin.activity, other)
             /\ cin.activity.training_stress_score # NoneNum
             /\ cin.event.icu_training_load # NoneNum
             /\ other.icu_training_load # NoneNum
             /\ Closer(cin.activity.training_stress_score, cin.event.icu_training_load,
                       other.icu_training_load))
                => cout >= calculate_match_confidence(cin.activity, other,
                                                      cin.tss_threshold)

\* C11 (original): of two candidate events of the activity's type, the one whose
\* planned TSS is closer to the activity's TSS gets a confidence >= the other's.
C11_CloserScoresHigher ==
    C11_Ordered(LAMBDA x, p, q : Abs(x - p) <= Abs(x - q))

\* C11 (amended): of two candidate events of the activity's type with positive
\* planned TSS, the one whose relative variance |actual - planned| / planned is
\* smaller gets a confidence >= the other's.
C11_SmallerVarianceScoresHigher ==
    C11_Ordered(LAMBDA x, p, q : p > 0 /\ q > 0 /\ Abs(x - p) * q <= Abs(x - q) * p)

\* C11 witness: the scored event has the smaller relative variance but the larger
\* distance in TSS points, and scores higher than the other candidate
C11_Witness ==
    /\ cout = 85
    /\ cin.tss_threshold = DefaultTssThreshold
    /\ cin.activity = [type |-> "Ride", training_stress_score |-> 50]
    /\ cin.event = [type |-> "Ride", icu_training_load |-> 60]
    /\ calculate_match_confidence(cin.activity, [type |-> "Ride", icu_training_load |-> 41],
                                  cin.tss_threshold) = 70


\* a sync has chosen its strategy and not yet written the new metadata
SyncRunning == spc \in {"events", "match", "save", "metadata"}

\* C12: a sync is a full sync exactly when no prior metadata exists, force_full is
\* set or the metadata lacks a last activity date; every other sync is incremental
\* and merges what it fetches with the persisted activities and events.
C12_FullExactlyWhen ==
    SyncRunning =>
        /\ loc.do_full <=>
              \/ files.sync_metadata = <<>>
              \/ loc.force_full
              \/ files.sync_metadata[1].last_activity_date = NoStamp
        /\ ~loc.do_full =>
              /\ Range(loc.activities) =
                    MergeRule(hist.before.completed_activities, loc.new_activities,
                              LAMBDA a : a.date)
              /\ spc # "events" =>
                    Range(loc.events) =
                        MergeRule(hist.before.planned_events, loc.new_events,
                                  LAMBDA e : e.start_date_local)

\* C12 witness: a sync that was not forced and found metadata without a last
\* activity date ran as a full sync, after an earlier sync had written that metadata
C12_Witness ==
    /\ spc = "metadata"
    /\ ~loc.force_full
    /\ loc.do_full
    /\ files.sync_metadata # <<>>
    /\ files.sync_metadata[1].last_activity_date = NoStamp
    /\ loc.activities # <<>>

(***************************************************************************)
(* Properties of the persistence                                           *)
(***************************************************************************)

\* C13: during a sync no persisted document (the five of _save_all_data and
\* the sync metadata) is written before the fetches, the merges, the match and
\* the index building have all completed, and when one of those steps raises
\* every document is exactly what it was before the sync
C13_WritesAfterPipeline ==
    /\ (spc \in {"events", "match"} \/ (spc = "save" /\ loc.saved = 0))
           => files = hist.before
    /\ (spc = "idle" /\ hist.failed \in {"activities", "events", "match"})
           => files = hist.before

\* the second sync raised in the match step, with documents persisted by the
\* first and a provider that has changed since
C13_Witness ==
    /\ spc = "idle"
    /\ hist.failed = "match"
    /\ hist.syncs = 2
    /\ hist.changes > 0
    /\ hist.before.completed_activities # <<>>
    /\ hist.before.sync_metadata # <<>>
    /\ files = hist.before

\* C14: when a sync ends with an exception, also one raised while the documents
\* are written, the documents are not left partially overwritten: they are
\* those of before the sync
C14_NeverPartiallyOverwritten ==
    (spc = "idle" /\ hist.failed # None) =>
        /\ files.partial = hist.before.partial
        /\ \A name \in Range(SaveOrder) \cup {"sync_metadata"} :
               files[name] = hist.before[name]

\* C15: once the caller has abandoned a sync on its timeout, that sync writes
\* no document: the documents stay what they were at the timeout
C15_AbandonedSyncWritesNothing ==
    hist.abandoned => files = hist.at_timeout

(***************************************************************************)
(* Properties of the index                                                 *)
(***************************************************************************)

\* C16: in the by-week index a week with planned workouts has a compliance rate
\* between 0 and 1 (thousandths: 0..1000), its completed workouts never exceed
\* its planned workouts; a week without planned workouts has compliance rate 0;
\* a week whose planned TSS is 0 has TSS adherence 0
C16_ComplianceBounded ==
    fout # NoReturn =>
        \A w \in DOMAIN fout[1].workout_index.by_week :
            LET week == fout[1].workout_index.by_week[w]
            IN  /\ week.planned_workouts > 0 =>
                       /\ 0 <= week.compliance_rate
                       /\ week.compliance_rate <= 1000
                       /\ week.completed_workouts <= week.planned_workouts
                /\ week.planned_workouts = 0 => week.compliance_rate = 0
                /\ week.planned_tss = 0 => week.tss_adherence = 0

\* a week with one planned workout, completed, in which two activities are
\* matched (the other one to an event that has no date)
C16_Witness ==
    /\ fout # NoReturn
    /\ \E w \in DOMAIN fout[1].workout_index.by_week :
          /\ fout[1].workout_index.by_week[w].planned_workouts = 1
          /\ fout[1].workout_index.by_week[w].compliance_rate = 1000
          /\ Cardinality({i \in 1..Len(fout[1].activities) :
                             /\ get_iso_week(fout[1].activities[i].date) = w
                             /\ fout[1].activities[i].planned_event_id # None}) = 2

\* C17: in the by-date index an actual entry matched to an event whose planned
\* TSS is known and positive, with a known actual TSS (zero included), has
\* variance_tss = actual - planned and completion_percentage = actual / planned
\* x 100 rounded to one decimal (tenths: 1067 is 106.7); an unmatched entry has
\* neither; actual 80 against planned 75 gives 5 and 106.7
C17_VarianceAndCompletion ==
    fout # NoReturn =>
        \A d \in DOMAIN fout[1].workout_index.by_date :
            \A k \in 1..Len(fout[1].workout_index.by_date[d].actual) :
                LET entry == fout[1].workout_index.by_date[d].actual[k]
                    planned == {e.icu_training_load :
                                   e \in {f \in Range(fout[1].events) :
                                             f.id = entry.matched_event_id}}
                IN  /\ \A planned_tss \in planned :
                          (planned_tss > 0 /\ entry.actual_tss # NoneNum) =>
                             /\ entry.has_variance
                             /\ entry.variance_tss = entry.actual_tss - planned_tss
                             /\ entry.completion_percentage # NoneNum
                             /\ Abs(10 * entry.completion_percentage * planned_tss
                                    - 10000 * entry.actual_tss) <= 5 * planned_tss
                             /\ (entry.actual_tss = 80 /\ planned_tss = 75) =>
                                    /\ entry.variance_tss = 5
                                    /\ entry.completion_percentage = 1067
                    /\ entry.matched_event_id = None =>
                          /\ ~entry.has_variance
                          /\ entry.completion_percentage = NoneNum

\* C17 for a positive actual TSS: then the entry has both values
C17_PositiveActual ==
    fout # NoReturn =>
        \A d \in DOMAIN fout[1].workout_index.by_date :
            \A k \in 1..Len(fout[1].workout_index.by_date[d].actual) :
                LET entry == fout[1].workout_index.by_date[d].actual[k]
                    planned == {e.icu_training_load :
                                   e \in {f \in Range(fout[1].events) :
                                             f.id = entry.matched_event_id}}
                IN  /\ \A planned_tss \in planned :
                          (planned_tss > 0 /\ entry.actual_tss # NoneNum
                              /\ entry.actual_tss > 0) =>
                             /\ entry.has_variance
                             /\ entry.variance_tss = entry.actual_tss - planned_tss
                             /\ entry.completion_percentage # NoneNum
                             /\ Abs(10 * entry.completion_percentage * planned_tss
                                    - 10000 * entry.actual_tss) <= 5 * planned_tss
                             /\ (entry.actual_tss = 80 /\ planned_tss = 75) =>
                                    /\ entry.variance_tss = 5
                                    /\ entry.completion_percentage = 1067
                    /\ entry.matched_event_id = None =>
                          /\ ~entry.has_variance
                          /\ entry.completion_percentage = NoneNum

\* the records of a list whose date parses
Dated(records, date_of(_)) ==
    SelectSeq(records, LAMBDA r : ParsesAsDate(extract_date(date_of(r))))

\* C18: a record whose date is malformed or cannot be parsed is skipped by every
\* date-keyed aggregation: it is under no key of the by-date index, and the
\* by-week index and the weekly summary are those of the other records
C18_UndatedSkipped ==
    fout # NoReturn =>
        LET index == fout[1].workout_index
            activities == Dated(fout[1].activities, LAMBDA a : a.date)
            events == Dated(fout[1].events, LAMBDA e : e.start_date_local)
        IN  /\ \A d \in DOMAIN index.by_date :
                  /\ \A k \in 1..Len(index.by_date[d].planned) :
                         index.by_date[d].planned[k].event_id \in Ids(events)
                  /\ \A k \in 1..Len(index.by_date[d].actual) :
                         index.by_date[d].actual[k].activity_id \in Ids(activities)
            /\ index.by_week = build_week_index(activities, events)
            /\ fout[1].weekly_stats = aggregate_weekly(activities)

\* C18 without the by-date index
C18_UndatedSkippedByWeek ==
    fout # NoReturn =>
        LET index == fout[1].workout_index
            activities == Dated(fout[1].activities, LAMBDA a : a.date)
            events == Dated(fout[1].events, LAMBDA e : e.start_date_local)
        IN  /\ index.by_week = build_week_index(activities, events)
            /\ fout[1].weekly_stats = aggregate_weekly(activities)

(***************************************************************************)
(* Properties of the merge                                                 *)
(***************************************************************************)

\* the date of a record of the merge, activity or event
MergeDate(r) == IF fin.kind = "activities" THEN r.date ELSE r.start_date_local

\* the persisted records of the call whose date cannot be parsed and whose id
\* no fetched record carries
Unparsable(dates) ==
    {r \in Range(fin.existing) : MergeDate(r)[1] \in dates /\ r.id \notin Ids(fin.new)}

\* C19: the merge keeps a persisted record whose date cannot be parsed (missing,
\* null or no date) and completes without an error
C19_UnparsableKept ==
    (fout # NoReturn /\ Unparsable({NoneNum, Null, Malformed}) # {}) =>
        /\ fout[1].error = None
        /\ Unparsable({NoneNum, Null, Malformed}) \subseteq Range(fout[1].merged)

\* C19 for a date that is missing or no date, in a merge without a null date
C19_MissingOrMalformedKept ==
    (fout # NoReturn /\ \A r \in Range(fin.existing) : MergeDate(r)[1] # Null) =>
        /\ fout[1].error = None
        /\ Unparsable({NoneNum, Malformed}) \subseteq Range(fout[1].merged)

(***************************************************************************)
(* Properties of the load calculator                                       *)
(***************************************************************************)

\* the TSS of the activities of the call dated day d, added one by one
RECURSIVE TssOn(_, _)
TssOn(d, n) ==
    IF n = 0 THEN 0
    ELSE TssOn(d, n - 1)
         + (IF fin.workout_history[n].date[1] = d
               /\ fin.workout_history[n].training_stress_score # NoneNum
            THEN fin.workout_history[n].training_stress_score ELSE 0)

\* C20: for activities that all have a date, the load calculator emits exactly
\* one point for every calendar day from the earliest activity date to today,
\* both included, no day missing; the TSS of a day is the sum of the TSS of its
\* activities, 0 for a day without one; without activities the result is empty
C20_OnePointPerDay ==
    (/\ fout # NoReturn
     /\ \A i \in 1..Len(fin.workout_history) :
           ParsesAsDate(fin.workout_history[i].date[1])) =>
        LET points == fout[1]
            days == {fin.workout_history[i].date[1] : i \in 1..Len(fin.workout_history)}
        IN  IF fin.workout_history = <<>> THEN points = <<>>
            ELSE \E earliest \in days :
                    /\ \A d \in days : earliest <= d
                    /\ Len(points) = fin.now[1] - earliest + 1
                    /\ \A i \in 1..Len(points) :
                          /\ points[i].date = earliest + i - 1
                          /\ points[i].tss = TssOn(points[i].date, Len(fin.workout_history))

\* four points, from three days ago to today: a day with one activity, a day
\* with two whose TSS add up, a day without activity, today
C20_Witness ==
    /\ fout # NoReturn
    /\ Len(fout[1]) = 4
    /\ fout[1][1].tss = 40
    /\ fout[1][2].tss = 50
    /\ fout[1][3].tss = 0
    /\ fout[1][4].date = fin.now[1]
    /\ Len(fin.workout_history) = 3

\* C21: with the same TSS X on every day from the first, the CTL is X on every
\* day (it is never negative and its limit is X); with any daily TSS that is
\* not negative the CTL is never negative
C21_EmaConverges ==
    /\ \A X \in EmaTss :
          (fin # <<>> /\ \A i \in 1..Len(fin) : fin[i] = X) => fout[1] = X * fout[2]
    /\ (\A i \in 1..Len(fin) : fin[i] >= 0) => (fout[1] >= 0 /\ fout[2] > 0)

\* TSS 10 on every day up to the last: the CTL, seeded on the first day and
\* updated on the others, is 10
C21_Witness ==
    /\ Len(fin) = MaxLoadDays
    /\ \A i \in 1..Len(fin) : fin[i] = 10
    /\ fout[2] > 1
    /\ fout[1] = 10 * fout[2]

(***************************************************************************)
(* utils/retry.py and IntervalsClient.get_power_curves                      *)
(*                                                                         *)
(* A callable is the sequence of what its successive invocations do: None  *)
(* for a call that returns, the class of the exception for a call that     *)
(* raises.  The value a call returns is identified by the number of the    *)
(* call.                                                                   *)
(***************************************************************************)

MAX_RETRIES == 3
INITIAL_RETRY_DELAY == 1
RETRY_BACKOFF_MULTIPLIER == 2

\* the classes an exception of class e is an instance of
Mro(e) ==
    IF e \in {"HTTPError", "ConnectionError"} THEN {e, "RequestException", "Exception"}
    ELSE {e, "Exception"}

\* a sleep after every failed attempt, the last one included
sleeps_after_every(attempt, max_retries) == TRUE

\* if attempt < max_retries - 1
sleeps_after(attempt, max_retries) == attempt < max_retries - 1

\* retry_with_backoff; should_retry_func is <<>> when it is not given, else
\* <<the set of exception classes it answers True for>>
retry_with_backoff(func, exception_types, max_retries, initial_delay, backoff_multiplier, should_retry_func) ==
    LET RECURSIVE Pow(_, _)
        Pow(b, e) == IF e = 0 THEN 1 ELSE b * Pow(b, e - 1)
        raise(calls, sleeps, e) ==
            [calls |-> calls, sleeps |-> sleeps, returned |-> 0, raised |-> e]
        RECURSIVE loop(_, _)
        \* for attempt in range(max_retries), attempt counted from 0
        loop(attempt, sleeps) ==
            IF attempt >= max_retries
            THEN \* raise last_exception, which is None when the loop never ran
                 raise(attempt, sleeps,
                       IF attempt = 0 THEN "TypeError" ELSE func[attempt])
            ELSE LET e == func[attempt + 1]
                 IN  IF e = None
                     THEN [calls |-> attempt + 1, sleeps |-> sleeps,
                           returned |-> attempt + 1, raised |-> None]
                     ELSE IF Mro(e) \cap exception_types = {}
                     THEN raise(attempt + 1, sleeps, e)
                     ELSE IF should_retry_func # <<>> /\ e \notin should_retry_func[1]
                     THEN raise(attempt + 1, sleeps, e)
                     ELSE IF sleeps_after(attempt, max_retries)
                     THEN loop(attempt + 1,
                               Append(sleeps, initial_delay * Pow(backoff_multiplier, attempt)))
                     ELSE loop(attempt + 1, sleeps)
    IN  loop(0, <<>>)

\* IntervalsClient.get_power_curves; responses[i] is what the requests of the
\* i-th time period do.  A key of the dict is the number of months with the
\* suffix that follows "_month(s)".  requested is the number of time periods
\* the fetch was started for; raised is the exception that leaves the method,
\* and then nothing is returned.
get_power_curves(time_periods_months, responses) ==
    LET put(power_curves, months, suffix, error) ==
            {x \in power_curves : x.key # <<months, suffix>>}
                \cup {[key |-> <<months, suffix>>, error |-> error]}
        RECURSIVE periods(_, _)
        periods(i, power_curves) ==
            IF i > Len(time_periods_months)
            THEN [raised |-> None, power_curves |-> power_curves, requested |-> i - 1]
            ELSE LET months == time_periods_months[i]
                     result == retry_with_backoff(
                                   responses[i], {"RequestException", "HTTPError"},
                                   MAX_RETRIES, INITIAL_RETRY_DELAY,
                                   RETRY_BACKOFF_MULTIPLIER, <<>>)
                 IN  IF result.raised = None
                     THEN periods(i + 1, put(power_curves, months, "", FALSE))
                     ELSE IF "HTTPError" \in Mro(result.raised)
                     THEN \* except requests.HTTPError, the only handler
                          periods(i + 1, put(power_curves, months, "_max_power", TRUE))
                     ELSE [raised |-> result.raised, power_curves |-> {},
                           requested |-> i]
    IN  periods(1, {})

(***************************************************************************)
(* SpecCurves: one call of get_power_curves for three time periods, each    *)
(* request of each period returning, failing with an HTTP status error or  *)
(* failing with a connection error.                                        *)
(***************************************************************************)

InitCurves ==
    /\ fin \in [time_periods_months : {<<1, 3, 6>>},
                 responses : [1..3 -> [1..MAX_RETRIES ->
                                 {None, "HTTPError", "ConnectionError"}]]]
    /\ fout = NoReturn
    /\ ConfIdle
    /\ MatchIdle
    /\ SyncIdle

GetPowerCurves ==
    /\ fout = NoReturn
    /\ fout' = <<get_power_curves(fin.time_periods_months, fin.responses)>>
    /\ UNCHANGED <<fin, cvars, mvars, svars>>

NextCurves == GetPowerCurves

SpecCurves == InitCurves /\ [][NextCurves]_vars

(***************************************************************************)
(* SpecRetry: one call of retry_with_backoff                                *)
(***************************************************************************)

MaxAttempts == 3

InitRetry ==
    /\ fin \in [func : [1..MaxAttempts ->
                          {None, "HTTPError", "ConnectionError", "ValueError"}],
                 exception_types : {{"RequestException", "HTTPError"}, {"ValueError"}},
                 max_retries : 1..MaxAttempts,
                 initial_delay : {1, 2},
                 backoff_multiplier : {2, 3},
                 should_retry_func : {<<>>, <<{"ConnectionError", "ValueError"}>>, <<{}>>}]
    /\ fout = NoReturn
    /\ ConfIdle
    /\ MatchIdle
    /\ SyncIdle

CallRetry ==
    /\ fout = NoReturn
    /\ fout' = <<retry_with_backoff(fin.func, fin.exception_types, fin.max_retries,
                                    fin.initial_delay, fin.backoff_multiplier,
                                    fin.should_retry_func)>>
    /\ UNCHANGED <<fin, cvars, mvars, svars>>

NextRetry == CallRetry

SpecRetry == InitRetry /\ [][NextRetry]_vars

(***************************************************************************)
(* Properties of the power-curve fetch and of the retry helper             *)
(***************************************************************************)

\* every request of the i-th time period of the call fails
FailsAfterRetries(i) == \A k \in 1..MAX_RETRIES : fin.responses[i][k] # None

\* C22: when the fetch of one time period fails after its retries, whatever the
\* failure, the other time periods are still fetched, the failed one is in the
\* result as an error placeholder, and no exception leaves get_power_curves
C22_FailureIsolated ==
    fout # NoReturn =>
        /\ fout[1].raised = None
        /\ fout[1].requested = Len(fin.time_periods_months)
        /\ \A i \in 1..Len(fin.time_periods_months) :
              FailsAfterRetries(i) =>
                 \E x \in fout[1].power_curves :
                    x.key[1] = fin.time_periods_months[i] /\ x.error

\* the same for time periods whose last request fails with an HTTP status
\* error: this part of C22 holds
C22_HttpFailureIsolated ==
    (/\ fout # NoReturn
     /\ \A i \in 1..Len(fin.time_periods_months) :
           FailsAfterRetries(i) => fin.responses[i][MAX_RETRIES] = "HTTPError") =>
        /\ fout[1].raised = None
        /\ fout[1].requested = Len(fin.time_periods_months)
        /\ \A i \in 1..Len(fin.time_periods_months) :
              FailsAfterRetries(i) =>
                 \E x \in fout[1].power_curves :
                    x.key[1] = fin.time_periods_months[i] /\ x.error

\* the first time period fails with HTTP errors and is a placeholder, the two
\* others are fetched
C22_HttpWitness ==
    /\ fout # NoReturn
    /\ FailsAfterRetries(1)
    /\ fout[1].power_curves =
          {[key |-> <<1, "_max_power">>, error |-> TRUE],
           [key |-> <<3, "">>, error |-> FALSE],
           [key |-> <<6, "">>, error |-> FALSE]}

\* C23: retry_with_backoff ends after at most max_retries invocations of func.
\* It returns the result of the first invocation that succeeds and calls func
\* no more; it re-raises at once, without another invocation or sleep, an
\* exception that is not in exception_types or that should_retry_func refuses;
\* otherwise it raises the last exception after exactly max_retries
\* invocations.  Before the k-th retry it has slept
\* initial_delay * backoff_multiplier^(k-1), and it does not sleep after the
\* final failed attempt.
C23_RetryBounded ==
    fout # NoReturn =>
        LET r == fout[1]
            retried(k) ==
                /\ fin.func[k] # None
                /\ Mro(fin.func[k]) \cap fin.exception_types # {}
                /\ \/ fin.should_retry_func = <<>>
                   \/ fin.func[k] \in fin.should_retry_func[1]
            ends == {k \in 1..fin.max_retries : ~retried(k)}
            last == IF ends = {} THEN fin.max_retries
                    ELSE CHOOSE k \in ends : \A j \in ends : k <= j
            RECURSIVE power(_, _)
            power(b, e) == IF e = 0 THEN 1 ELSE b * power(b, e - 1)
        IN  /\ r.calls = last
            /\ r.calls <= fin.max_retries
            /\ fin.func[last] = None => (r.returned = last /\ r.raised = None)
            /\ fin.func[last] # None => (r.returned = 0 /\ r.raised = fin.func[last])
            /\ Len(r.sleeps) = last - 1
            /\ \A k \in 1..(last - 1) :
                  r.sleeps[k] = fin.initial_delay * power(fin.backoff_multiplier, k - 1)

\* three attempts that all fail with a retried exception: two sleeps, of 2 and
\* of 6, none after the third attempt, and the third exception raised
C23_Witness ==
    /\ fout # NoReturn
    /\ fin.max_retries = 3
    /\ fin.func[3] = "ConnectionError"
    /\ fout[1].calls = 3
    /\ fout[1].raised = "ConnectionError"
    /\ fout[1].sleeps = <<2, 6>>

\* C24: after every successful sync, full or incremental, the persisted list of
\* completed activities is in date order, newest first: its first element is
\* the most recent activity and its first ten the ten most recent
C24_PersistedNewestFirst ==
    (spc = "idle" /\ files.sync_metadata # <<>>) =>
        \A i, j \in 1..Len(files.completed_activities) :
            i < j => ~StampLess(files.completed_activities[i].date,
                                files.completed_activities[j].date)

\* C25: after match the cross-references are symmetric: an activity A of the
\* output carries the matched event id E exactly when the event E of the output
\* has completed = true and completed_activity_id = A
C25_LinksSymmetric ==
    mpc = "done" =>
        \A a \in Range(mout.activities) : \A e \in Range(mout.events) :
            (a.planned_event_id = e.id)
                <=> (e.completed /\ e.completed_activity_id = a.id)

\* the part of C25 that holds: the links are symmetric when the input carries
\* no annotation of an earlier pass and no two activities resolve to the same
\* pairing id
C25_SymmetricOnFreshInput ==
    (/\ \A a \in Range(minp.completed_activities) : a.planned_event_id = None
     /\ \A e \in Range(minp.planned_events) :
           ~e.completed /\ e.completed_activity_id = None
     /\ \A i, j \in 1..Len(minp.completed_activities) :
           (i # j /\ Resolves(minp.completed_activities[i]))
              => minp.completed_activities[i].paired_event_id
                    # minp.completed_activities[j].paired_event_id)
        => C25_LinksSymmetric

(***************************************************************************)
(* SpecPaired: the syncs of SpecSync on a provider whose activities are     *)
(* recent and paired by the provider, one of them with a planned event     *)
(* older than the refresh window.                                          *)
(***************************************************************************)

InitPaired ==
    /\ now = <<FirstDay, 1>>
    /\ remote_activities \in
          {x \cup y : x \in Opt({RemoteActivity("a1", 1, RecentDay, "e1", 50)}),
                      y \in Opt({RemoteActivity("a2", 2, RecentDay, p, 50) :
                                    p \in {None, "e2"}})}
    /\ remote_events \in
          {x \cup y : x \in Opt({RemoteEvent("e1", 1, "Tempo", OldDay, 50)}),
                      y \in Opt({RemoteEvent("e2", 2, "", RecentDay, 50)})}
    /\ api_order \in {"asc", "desc"}
    /\ files = NoFiles
    /\ spc = "idle"
    /\ loc = NoLocals
    /\ hist = NoHistory
    /\ ConfIdle
    /\ MatchIdle
    /\ CallIdle

SpecPaired == InitPaired /\ [][NextSync]_vars

\* C26: after any sequence of syncs interleaved with remote additions, edits
\* and deletions, every completed-activity id held by a persisted event, by a
\* by-date entry or by a by-type entry names a persisted activity, and every
\* matched event id held by a persisted activity names a persisted event
C26_NoDanglingReference ==
    (spc = "idle" /\ files.sync_metadata # <<>>) =>
        LET activity_ids == Ids(files.completed_activities)
            event_ids == Ids(files.planned_events)
            index == files.workout_index
        IN  /\ \A e \in Range(files.planned_events) :
                  e.completed_activity_id # None => e.completed_activity_id \in activity_ids
            /\ \A d \in DOMAIN index.by_date : \A p \in Range(index.by_date[d].planned) :
                  p.completed_activity_id # None => p.completed_activity_id \in activity_ids
            /\ \A n \in DOMAIN index.by_type : \A t \in Range(index.by_type[n]) :
                  t.activity_id # None => t.activity_id \in activity_ids
            /\ \A a \in Range(files.completed_activities) :
                  a.planned_event_id # None => a.planned_event_id \in event_ids

\* the links of a list of activities with their confidences
LinksWithConfidence(activities) ==
    {<<a.id, a.planned_event_id, a.planned_match_confidence>> :
        a \in {b \in Range(activities) : b.planned_event_id # None}}

\* C27: the links match produces do not depend on the order of the activities
\* in its input: every permutation of the same activities, with the same
\* events, gives the same activity-event pairs with the same confidences
C27_OrderIndependent ==
    mpc = "done" =>
        LET n == Len(minp.completed_activities)
            orders == {f \in [1..n -> 1..n] : \A i, j \in 1..n : f[i] = f[j] => i = j}
        IN  \A f \in orders :
               LinksWithConfidence(
                   match_workouts(minp.planned_events,
                                  [i \in 1..n |-> minp.completed_activities[f[i]]],
                                  minp.tss_threshold).activities)
                 = LinksWithConfidence(mout.activities)

\* C28: every entry of the by-week index has week_start set to the Monday of
\* its week, also for a week with completed activities and no planned event
C28_WeekStartIsMonday ==
    fout # NoReturn =>
        LET by_week == fout[1].workout_index.by_week
        IN  \A w \in DOMAIN by_week :
               /\ by_week[w].week_start # NoneNum
               /\ by_week[w].week_start % 7 = 0
               /\ by_week[w].week_start \div 7 = w

\* the part of C28 that holds: week_start is the Monday of the week for every
\* week that has a planned event
C28_WeekStartOfPlannedWeek ==
    fout # NoReturn =>
        LET by_week == fout[1].workout_index.by_week
        IN  \A w \in DOMAIN by_week :
               (\E e \in Range(fin.events) : get_iso_week(e.start_date_local) = w)
                  => (by_week[w].week_start % 7 = 0 /\ by_week[w].week_start \div 7 = w)

\* C29: in the load calculator an activity whose date is missing or cannot be
\* parsed is skipped without changing the result for the others: the load
\* points are those of the input without that activity
C29_UndatedIgnoredByLoad ==
    fout # NoReturn =>
        fout[1] = calculate_daily_ctl(
                      SelectSeq(fin.workout_history, LAMBDA a : ParsesAsDate(a.date[1])),
                      fin.now, fin.garbage_low)

\* the part of C29 that holds: a date string that is not a date and sorts
\* after the dates is skipped
C29_LateGarbageIgnoredByLoad ==
    (/\ fout # NoReturn
     /\ ~fin.garbage_low
     /\ \A a \in Range(fin.workout_history) :
           ParsesAsDate(a.date[1]) \/ a.date[1] = Malformed) =>
        fout[1] = calculate_daily_ctl(
                      SelectSeq(fin.workout_history, LAMBDA a : ParsesAsDate(a.date[1])),
                      fin.now, fin.garbage_low)

(***************************************************************************)
(* coach_service.py and utils/conversation.py                              *)
(*                                                                         *)
(* The LLM is the sequence of what its successive requests do: raises      *)
(* tells that the request raises, tool_calls lists the tool calls of the   *)
(* response, empty for a text response.  A tool call is "ok" when its      *)
(* executor returns, "tool_raises" when its executor raises, "bad_args"    *)
(* when its arguments are not JSON.  The id of a tool call is the number   *)
(* of the request with its position in the response.                       *)
(***************************************************************************)

\* CoachService.process_message on a conversation without earlier message,
\* with _execute_tool_call and the ConversationManager methods it calls
process_message(responses, max_tool_iterations) ==
    LET message(role, tool_calls, tool_call_id, error) ==
            [role |-> role, tool_calls |-> tool_calls, tool_call_id |-> tool_call_id,
             error |-> error]
        \* add_user_message
        user == message("user", <<>>, <<>>, FALSE)
        \* add_model_response: model_dump keeps the tool calls of the message
        assistant(n) ==
            message("assistant",
                    [k \in 1..Len(responses[n].tool_calls) |-> <<n, k>>], <<>>, FALSE)
        \* add_tool_response
        tool(id, error) == message("tool", <<>>, id, error)
        ended(history, outcome, iteration, requests) ==
            [history |-> history, outcome |-> outcome, iteration |-> iteration,
             requests |-> requests]
        RECURSIVE execute(_, _, _)
        \* for tool_call in tool_calls: await self._execute_tool_call(tool_call)
        execute(history, n, k) ==
            IF k > Len(responses[n].tool_calls)
            THEN [history |-> history, raised |-> FALSE]
            ELSE IF responses[n].tool_calls[k] = "bad_args"
            THEN \* json.loads(tool_call.function.arguments), before the try
                 [history |-> history, raised |-> TRUE]
            ELSE execute(Append(history,
                                tool(<<n, k>>, responses[n].tool_calls[k] = "tool_raises")),
                         n, k + 1)
        RECURSIVE loop(_, _, _)
        \* the while loop, response n being the last one generated
        loop(history, n, iteration) ==
            IF responses[n].tool_calls # <<>> /\ iteration < max_tool_iterations
            THEN LET done == execute(Append(history, assistant(n)), n, 1)
                 IN  IF done.raised
                     THEN ended(done.history, "raised", iteration + 1, n)
                     ELSE IF responses[n + 1].raises
                     THEN ended(done.history, "fallback", iteration + 1, n + 1)
                     ELSE loop(done.history, n + 1, iteration + 1)
            ELSE \* "Add final model response to history"
                 ended(Append(history, assistant(n)), "returned", iteration, n)
    IN  IF responses[1].raises THEN ended(<<user>>, "raised", 0, 1)
        ELSE loop(<<user>>, 1, 0)

(***************************************************************************)
(* SpecCoach: one call of process_message                                   *)
(***************************************************************************)

MaxToolIterations == 2

InitCoach ==
    /\ fin \in [max_tool_iterations : 1..MaxToolIterations,
                 responses : [1..(MaxToolIterations + 1) ->
                     [raises : {FALSE},
                      tool_calls : {<<>>, <<"ok">>, <<"tool_raises">>, <<"bad_args">>,
                                    <<"ok", "ok">>, <<"ok", "bad_args">>,
                                    <<"bad_args", "ok">>}]
                     \cup {[raises |-> TRUE, tool_calls |-> <<>>]}]]
    /\ fout = NoReturn
    /\ ConfIdle
    /\ MatchIdle
    /\ SyncIdle

ProcessMessage ==
    /\ fout = NoReturn
    /\ fout' = <<process_message(fin.responses, fin.max_tool_iterations)>>
    /\ UNCHANGED <<fin, cvars, mvars, svars>>

NextCoach == ProcessMessage

SpecCoach == InitCoach /\ [][NextCoach]_vars

(***************************************************************************)
(* Properties of the coach's tool-calling loop                             *)
(***************************************************************************)

\* every assistant message with tool calls is followed by exactly one tool
\* response for each of its tool-call ids
ToolCallsAnswered(history) ==
    \A i \in 1..Len(history) :
        \A c \in 1..Len(history[i].tool_calls) :
            Cardinality({j \in (i + 1)..Len(history) :
                            /\ history[j].role = "tool"
                            /\ history[j].tool_call_id = history[i].tool_calls[c]}) = 1

\* C30: process_message runs at most max_tool_iterations tool-calling rounds
\* and then ends, and whenever it returns or raises every assistant message
\* with tool calls in the history is followed by one tool response for each of
\* its tool-call ids
C30_ToolCallsAnswered ==
    fout # NoReturn =>
        /\ fout[1].iteration <= fin.max_tool_iterations
        /\ ToolCallsAnswered(fout[1].history)

\* the part of C30 that holds: at most max_tool_iterations rounds and one
\* request more than rounds, and every tool call in the history is answered
\* when no arguments are malformed and the LLM stops asking for tools before
\* the limit
C30_RoundsBounded ==
    fout # NoReturn =>
        /\ fout[1].iteration <= fin.max_tool_iterations
        /\ fout[1].requests <= fin.max_tool_iterations + 1
        /\ (/\ \A n \in 1..fout[1].requests :
                  \A k \in 1..Len(fin.responses[n].tool_calls) :
                      fin.responses[n].tool_calls[k] # "bad_args"
            /\ \/ fout[1].outcome # "returned"
               \/ fin.responses[fout[1].requests].tool_calls = <<>>)
              => ToolCallsAnswered(fout[1].history)

\* two rounds of tool calls, one with a tool that raises, then a text response
C30_RoundsWitness ==
    /\ fout # NoReturn
    /\ fout[1].outcome = "returned"
    /\ fout[1].iteration = 2
    /\ Len(fout[1].history) = 7
    /\ \E j \in 1..Len(fout[1].history) : fout[1].history[j].error

====
